---- MODULE Spec2Model ----
(***************************************************************************)
(* Multi-judge consensus engine: scripts/llm_client.py (Provider Gateway)  *)
(* and scripts/multi_judge_evaluator.py (validation of judge and           *)
(* meta-judge output, judge fan-out, meta-judge synthesis, batch           *)
(* scheduler).                                                             *)
(***************************************************************************)
EXTENDS Integers, Sequences, FiniteSets, TLC

VARIABLES
    \* ---- run_evaluation_pipeline (multi_judge_evaluator.py:284-328)
    config,         \* the llm_models list of the loaded configuration
    provider,       \* the response texts the providers of this run can give
    review_files,   \* the *.json files discovered in the input directory
    stems,          \* per review file: the stem of its file name
    run,            \* position of __main__ and run_evaluation_pipeline
    semaphore,      \* free slots of asyncio.Semaphore
    pc,             \* per review file: position of process_file_with_limit
    judges,         \* per review file: one slot per judge task of the gather
    outputs,        \* per output path: content of the result file
    calls,          \* per review file: query_llm calls started so far
    writes,         \* per output path: times the result file was written
    existed,        \* the review files whose result file existed at the start
    executor,       \* the thread pool that asyncio.to_thread runs query_llm in
    \* ---- one LLMClient.query_llm call (llm_client.py:86-165)
    q_pc,           \* "entry", "attempt", "sleep", "returned", "raised"
    q_model,        \* the model_id argument
    q_attempt,      \* the loop variable attempt
    q_delay,        \* current_delay
    q_made,         \* provider requests made (client.chat.completions.create)
    q_waits,        \* the time.sleep arguments, in order
    q_last,         \* outcome of the latest provider request
    q_ret,          \* the value returned
    \* ---- one validation of a raw output
    v_raw,          \* the raw_output under validation
    v_pc,           \* "input", "judge", "meta"
    v_res,          \* the result dictionary built from it
    \* ---- one call of load_review_data
    l_data,         \* the content of the review file
    l_pc,           \* "input", "loaded"
    l_ret,          \* the value returned
    \* ---- review generation (generate_ai_reviews.py), run twice
    g_pass,         \* "off", "startup", "first", "second", "ended"
    g_items,        \* item -> its source and id
    g_pc,           \* (item, model) -> position of its generation task
    g_sem,          \* the semaphore of run_review_generation
    g_files,        \* output file name -> the file
    g_calls,        \* pass -> (item, model) -> query_llm calls made
    g_wrote         \* pass -> the (item, model) pairs that wrote their file

vars == <<config, provider, review_files, stems, run, semaphore, pc, judges,
          outputs, calls, writes, existed, executor, q_pc, q_model, q_attempt, q_delay, q_made,
          q_waits, q_last, q_ret, v_raw, v_pc, v_res, l_data, l_pc, l_ret,
          g_pass, g_items, g_pc, g_sem, g_files, g_calls, g_wrote>>

pipeVars == <<config, provider, review_files, stems, run, semaphore, pc, judges,
              outputs, calls, writes, existed, executor>>
queryVars == <<q_pc, q_model, q_attempt, q_delay, q_made, q_waits, q_last, q_ret>>
validVars == <<v_raw, v_pc, v_res>>
loadVars == <<l_data, l_pc, l_ret>>
genVars == <<g_pass, g_items, g_pc, g_sem, g_files, g_calls, g_wrote>>

-----------------------------------------------------------------------------
(* Python values *)

\* A character of a str. The characters of a JSON object are "{", one
\* character standing for its members (obj holds them), and "}".
NoObj == [k \in {} |-> 0]
Ch(c) == [ch |-> c, obj |-> NoObj]
ObjCh(d) == [ch |-> "members", obj |-> d]

RECURSIVE Chars(_)
Chars(s) == IF Len(s) = 0 THEN <<>> ELSE <<Ch(Head(s))>> \o Chars(Tail(s))

\* Optional[str]: None, or a str
None == [none |-> TRUE, text |-> <<>>]
Str(t) == [none |-> FALSE, text |-> t]
\* Truthy telling None from a str only ("is not None")
Truthy_NotNone(x) == ~x.none
\* bool(x) for an Optional[str]
Truthy(x) == ~x.none /\ Len(x.text) > 0

\* A JSON member value as json.loads types it
JInt(n) == [kind |-> "int", val |-> n]
JBool(b) == [kind |-> "bool", val |-> IF b THEN 1 ELSE 0]
JFloat(n) == [kind |-> "float", val |-> n]      \* the float n.0
JStr == [kind |-> "str", val |-> 0]
JNull == [kind |-> "null", val |-> 0]
JList == [kind |-> "list", val |-> 0]

Whitespace == {" ", "\n"}

\* str.strip()
RECURSIVE LStrip(_)
LStrip(s) ==
    IF Len(s) > 0 /\ Head(s).ch \in Whitespace THEN LStrip(Tail(s)) ELSE s
RECURSIVE RStrip(_)
RStrip(s) ==
    IF Len(s) > 0 /\ s[Len(s)].ch \in Whitespace
    THEN RStrip(SubSeq(s, 1, Len(s) - 1)) ELSE s
Strip(s) == RStrip(LStrip(s))

\* str.startswith(prefix)
StartsWith(s, prefix) ==
    Len(s) >= Len(prefix) /\ SubSeq(s, 1, Len(prefix)) = prefix

\* s[a:-b] for a, b >= 0 and b > 0
Slice(s, a, b) == SubSeq(s, a + 1, Len(s) - b)

\* json.loads: a dict, another JSON value, or JSONDecodeError
JsonLoads(s) ==
    LET t == Strip(s) IN
    IF Len(t) = 3 /\ t[1] = Ch("{") /\ t[2].ch = "members" /\ t[3] = Ch("}")
        THEN [type |-> "dict", d |-> t[2].obj]
    ELSE IF t = <<Ch("{"), Ch("}")>> THEN [type |-> "dict", d |-> NoObj]
    ELSE IF t = <<Ch("["), Ch("]")>> THEN [type |-> "list", d |-> NoObj]
    ELSE IF t = <<Ch("7")>> THEN [type |-> "int", d |-> NoObj]
    ELSE IF t = Chars(<<"n", "u", "l", "l">>) THEN [type |-> "null", d |-> NoObj]
    ELSE [type |-> "JSONDecodeError", d |-> NoObj]

-----------------------------------------------------------------------------
(* multi_judge_evaluator.py: constants *)

CRITERIA == <<"factual_correctness", "actionability", "analytical_depth">>
SCORE_MIN == 1
SCORE_MAX == 5

META_CRITERIA ==
    <<"final_factual_correctness", "final_actionability", "final_analytical_depth">>

ERR_SCHEMA == "Output JSON structure, type, or score range invalid"
ERR_PARSE == "Invalid JSON format"
ERR_UNEXPECTED == "Unexpected parsing error: ..."
ERR_NO_RESPONSE == "No response from ... after retries."
ERR_NO_OUTPUTS == "No judge outputs provided."
NoError == "None"

\* result["parsed_result"]: None or the parsed dict
NoParsed == [none |-> TRUE, d |-> NoObj]
Parsed(d) == [none |-> FALSE, d |-> d]

-----------------------------------------------------------------------------
(* Output validation shared in shape by _run_single_judge and _run_meta_judge *)

\* the fence stripping of lines 133-138 / 179-184
\* ("BQ" is the backquote character)
FENCE_JSON == Chars(<<"BQ", "BQ", "BQ", "j", "s", "o", "n">>)
FENCE == Chars(<<"BQ", "BQ", "BQ">>)

CleanOutput(text) ==
    IF StartsWith(Strip(text), FENCE_JSON) THEN Strip(Slice(Strip(text), 7, 3))
    ELSE IF StartsWith(Strip(text), FENCE) THEN Strip(Slice(Strip(text), 3, 3))
    ELSE Strip(text)

\* isinstance(v, int): bool is a subclass of int
IsInstanceInt(v) == v.kind \in {"int", "bool"}
IsInstanceStr(v) == v.kind = "str"

\* InScoreRange with the upper limit off by one
InScoreRange_UpperOffByOne(v) ==
    IF v.kind \in {"int", "bool", "float"}
    THEN IF SCORE_MIN <= v.val /\ v.val <= SCORE_MAX + 1 THEN "True" ELSE "False"
    ELSE "TypeError"

\* SCORE_MIN <= v <= SCORE_MAX: "True", "False", or TypeError for a value
\* that does not order against an int
InScoreRange(v) ==
    IF v.kind \in {"int", "bool", "float"}
    THEN IF SCORE_MIN <= v.val /\ v.val <= SCORE_MAX THEN "True" ELSE "False"
    ELSE "TypeError"

\* all(k in parsed for k in keys), for a dict
AllKeysIn(d, keys) == \A i \in 1..Len(keys) : keys[i] \in DOMAIN d

\* all(isinstance(parsed[k], int) for k in keys): the generator stops at the
\* first False; parsed[k] raises KeyError for an absent key
RECURSIVE AllIsInt(_, _, _)
AllIsInt(d, keys, i) ==
    IF i > Len(keys) THEN "True"
    ELSE IF keys[i] \notin DOMAIN d THEN "KeyError"
    ELSE IF ~IsInstanceInt(d[keys[i]]) THEN "False"
    ELSE AllIsInt(d, keys, i + 1)

\* all(SCORE_MIN <= parsed[k] <= SCORE_MAX for k in keys)
RECURSIVE AllInRange(_, _, _)
AllInRange(d, keys, i) ==
    IF i > Len(keys) THEN "True"
    ELSE IF keys[i] \notin DOMAIN d THEN "KeyError"
    ELSE IF InScoreRange(d[keys[i]]) # "True" THEN InScoreRange(d[keys[i]])
    ELSE AllInRange(d, keys, i + 1)

\* all(isinstance(parsed[k], str) for k in keys)
RECURSIVE AllIsStr(_, _, _)
AllIsStr(d, keys, i) ==
    IF i > Len(keys) THEN "True"
    ELSE IF keys[i] \notin DOMAIN d THEN "KeyError"
    ELSE IF ~IsInstanceStr(d[keys[i]]) THEN "False"
    ELSE AllIsStr(d, keys, i + 1)

Raises(r) == r \in {"KeyError", "TypeError"}

\* lines 140-149 on the value json.loads returned: "valid", "invalid", or
\* "raise" when one of the checks raises (they run one after the other,
\* whatever the earlier ones found)
JudgeChecks(parsed) ==
    IF parsed.type # "dict" THEN "raise"
    ELSE IF Raises(AllIsInt(parsed.d, CRITERIA, 1)) THEN "raise"
    ELSE IF Raises(AllInRange(parsed.d, CRITERIA, 1)) THEN "raise"
    ELSE IF /\ AllKeysIn(parsed.d, CRITERIA \o <<"reasoning">>)
            /\ AllIsInt(parsed.d, CRITERIA, 1) = "True"
            /\ AllInRange(parsed.d, CRITERIA, 1) = "True"
            /\ "reasoning" \in DOMAIN parsed.d
            /\ IsInstanceStr(parsed.d["reasoning"])
         THEN "valid"
    ELSE "invalid"

\* lines 186-196
MetaChecks(parsed) ==
    IF parsed.type # "dict" THEN "raise"
    ELSE IF Raises(AllIsInt(parsed.d, META_CRITERIA, 1)) THEN "raise"
    ELSE IF Raises(AllInRange(parsed.d, META_CRITERIA, 1)) THEN "raise"
    ELSE IF Raises(AllIsStr(parsed.d, <<"analysis", "consensus_reasoning">>, 1))
         THEN "raise"
    ELSE IF /\ AllKeysIn(parsed.d, META_CRITERIA \o <<"analysis", "consensus_reasoning">>)
            /\ AllIsInt(parsed.d, META_CRITERIA, 1) = "True"
            /\ AllInRange(parsed.d, META_CRITERIA, 1) = "True"
            /\ AllIsStr(parsed.d, <<"analysis", "consensus_reasoning">>, 1) = "True"
         THEN "valid"
    ELSE "invalid"

\* ParseOutcome keeping the parsed payload of an output that fails the checks
ParseOutcome_KeepsInvalidPayload(raw_output, checks, parsed) ==
    IF ~Truthy(raw_output) THEN [parsed_result |-> NoParsed, error |-> ERR_NO_RESPONSE]
    ELSE IF parsed.type = "JSONDecodeError"
        THEN [parsed_result |-> NoParsed, error |-> ERR_PARSE]
    ELSE IF checks = "raise"
        THEN [parsed_result |-> NoParsed, error |-> ERR_UNEXPECTED]
    ELSE IF checks = "valid"
        THEN [parsed_result |-> Parsed(parsed.d), error |-> NoError]
    ELSE [parsed_result |-> Parsed(parsed.d), error |-> ERR_SCHEMA]

\* the parsed_result and error of lines 130-159 for a truthy or falsy raw_output
ParseOutcome(raw_output, checks, parsed) ==
    IF ~Truthy(raw_output) THEN [parsed_result |-> NoParsed, error |-> ERR_NO_RESPONSE]
    ELSE IF parsed.type = "JSONDecodeError"
        THEN [parsed_result |-> NoParsed, error |-> ERR_PARSE]
    ELSE IF checks = "raise"
        THEN [parsed_result |-> NoParsed, error |-> ERR_UNEXPECTED]
    ELSE IF checks = "valid"
        THEN [parsed_result |-> Parsed(parsed.d), error |-> NoError]
    ELSE [parsed_result |-> NoParsed, error |-> ERR_SCHEMA]

\* _run_single_judge after the gateway call returned raw_output
JudgeResult(judge_id, raw_output) ==
    LET parsed == JsonLoads(CleanOutput(raw_output.text))
        o == ParseOutcome(raw_output, JudgeChecks(parsed), parsed)
    IN  [judge_id |-> judge_id, raw_output |-> raw_output,
         parsed_result |-> o.parsed_result, error |-> o.error]

\* RawExcerpt without the "if raw" guard: slicing None raises
RawExcerpt_Unguarded(raw) == IF raw.none THEN "TypeError" ELSE "raw[:150]"

\* _get_meta_judge_prompt, lines 87 and 90: the excerpt of a failed judge's
\* raw output, f"'{raw[:150]}...'" if raw else "N/A"
RawExcerpt(raw) == IF Truthy(raw) THEN "raw[:150]" ELSE "N/A"

\* _get_meta_judge_prompt, lines 74-90: what the prompt shows for one judge
\* output: the label it goes under, and its scores or its failure
PromptEntry(output) ==
    [label |-> output.judge_id,
     shows |-> IF ~output.parsed_result.none THEN "Scores"
               ELSE IF output.error # NoError THEN "Status: Error"
               ELSE "Status: Invalid Output Format",
     raw |-> IF ~output.parsed_result.none THEN "" ELSE RawExcerpt(output.raw_output)]

\* _get_meta_judge_prompt, lines 72-98: inputs_str, one entry per judge
\* output, in the order of the list it is given
MetaJudgePrompt(judge_outputs) ==
    [i \in 1..Len(judge_outputs) |-> PromptEntry(judge_outputs[i])]

\* PromptRaises as if building the prompt raised for an invalid verdict
PromptRaises_OnInvalid(judge_outputs) ==
    \E i \in DOMAIN judge_outputs : judge_outputs[i].parsed_result.none

\* whether building the prompt raises (slicing a None raw output would)
PromptRaises(judge_outputs) ==
    \E i \in DOMAIN judge_outputs : PromptEntry(judge_outputs[i]).raw = "TypeError"

\* _run_meta_judge after the gateway call returned raw_output
MetaResult(model_id, raw_output) ==
    LET parsed == JsonLoads(CleanOutput(raw_output.text))
        o == ParseOutcome(raw_output, MetaChecks(parsed), parsed)
    IN  [model_id |-> model_id, raw_output |-> raw_output,
         parsed_result |-> o.parsed_result, error |-> o.error]

-----------------------------------------------------------------------------
(* llm_client.py: LLMClient *)

DEFAULT_MAX_RETRIES == 3
DEFAULT_INITIAL_DELAY == 2
MAX_DELAY == 60

\* dict.get(key, default)
Get(d, key, default) == IF key \in DOMAIN d THEN d[key] ELSE default

Min(a, b) == IF a <= b THEN a ELSE b

\* _load_provider_configs: a provider without base_url is dropped; one
\* without an API key is kept, with api_key None
LoadProviderConfigs(cfg) ==
    [name \in {n \in DOMAIN cfg.llm_providers : cfg.llm_providers[n].base_url} |->
        [api_key |-> cfg.llm_providers[name].api_key]]

\* _load_model_configs: model_id -> configuration; an entry without id,
\* provider or model_name, or with a provider that was not loaded, is skipped
ModelLoaded(cfg, m) ==
    /\ m.id # "" /\ m.provider # "" /\ m.model_name # ""
    /\ m.provider \in DOMAIN LoadProviderConfigs(cfg)

LoadModelConfigs(cfg) ==
    LET ms == cfg.llm_models
        kept == {i \in 1..Len(ms) : ModelLoaded(cfg, ms[i])}
        last(id) == CHOOSE i \in kept :
                        ms[i].id = id /\ \A k \in kept : ms[k].id = id => k <= i
    IN  [id \in {ms[i].id : i \in kept} |->
            [provider |-> ms[last(id)].provider,
             model_name |-> ms[last(id)].model_name,
             api_key |-> LoadProviderConfigs(cfg)[ms[last(id)].provider].api_key]]

max_retries(cfg) == Get(cfg.multi_judge_config, "max_retries", DEFAULT_MAX_RETRIES)
initial_delay(cfg) == Get(cfg.multi_judge_config, "initial_delay", DEFAULT_INITIAL_DELAY)

\* What one client.chat.completions.create request can do (lines 133-158):
\* answer with a message ("content"), answer without choices, or raise
\* RateLimitError, APITimeoutError, another APIStatusError (the provider's
\* 401 for bad credentials and 404 for an unknown model among them), or any
\* other Exception
ProviderFailures ==
    {"no_choices", "RateLimitError", "APITimeoutError", "APIStatusError_5xx",
     "APIStatusError_401", "APIStatusError_404", "Exception"}
ProviderOutcomes == {"content"} \cup ProviderFailures

\* ExceptClause without the catch-all "except Exception"
ExceptClause_NoCatchAll(outcome) ==
    CASE outcome = "RateLimitError" -> "except RateLimitError"
      [] outcome = "APITimeoutError" -> "except APITimeoutError"
      [] outcome \in {"APIStatusError_5xx", "APIStatusError_401", "APIStatusError_404"}
            -> "except APIStatusError"
      [] OTHER -> "no exception"

\* the except clause of lines 146-158 that catches the outcome of a request
ExceptClause(outcome) ==
    CASE outcome = "RateLimitError" -> "except RateLimitError"
      [] outcome = "APITimeoutError" -> "except APITimeoutError"
      [] outcome \in {"APIStatusError_5xx", "APIStatusError_401", "APIStatusError_404"}
            -> "except APIStatusError"
      [] outcome = "Exception" -> "except Exception"
      [] OTHER -> "no exception"

\* lines 139-142: a None, empty or blank content is returned as ""
ReturnedContent(content) == IF Strip(content) = <<>> THEN Str(<<>>) ELSE Str(content)

\* EntryFails without the API key check of lines 104-106
EntryFails_NoKeyCheck(cfg, model_id, client_ok) ==
    \/ model_id \notin DOMAIN LoadModelConfigs(cfg)
    \/ ~client_ok

\* lines 100-114: the checks before the first attempt
EntryFails(cfg, model_id, client_ok) ==
    \/ model_id \notin DOMAIN LoadModelConfigs(cfg)
    \/ ~LoadModelConfigs(cfg)[model_id].api_key
    \/ ~client_ok

\* RetryAfter with the comparison off by one
RetryAfter_OneMore(cfg, attempt) == attempt <= max_retries(cfg)

\* line 159: after a failed attempt, sleep and retry, or give up
RetryAfter(cfg, attempt) == attempt < max_retries(cfg)

\* line 162
NextDelay(delay) == Min(delay * 2, MAX_DELAY)

QueryEntry ==
    /\ q_pc = "entry"
    /\ \E client_ok \in BOOLEAN :
        IF EntryFails(config, q_model, client_ok)
        THEN /\ q_pc' = "returned"
             /\ q_ret' = None
             /\ UNCHANGED <<q_attempt, q_delay>>
        ELSE /\ IF max_retries(config) + 1 > 0
                THEN q_pc' = "attempt" /\ q_ret' = q_ret
                ELSE q_pc' = "returned" /\ q_ret' = None
             /\ q_attempt' = 0
             /\ q_delay' = initial_delay(config)
    /\ UNCHANGED <<q_model, q_made, q_waits, q_last>>
    /\ UNCHANGED <<pipeVars, validVars, loadVars, genVars>>

\* one pass of the loop body up to line 158
QueryAttempt ==
    /\ q_pc = "attempt"
    /\ \E outcome \in ProviderOutcomes, content \in provider[q_model].texts \cup {<<>>} :
        /\ outcome # "content" => content = <<>> /\ provider[q_model].fails
        /\ q_made' = q_made + 1
        /\ q_last' = outcome
        /\ IF outcome = "content"
           THEN q_pc' = "returned" /\ q_ret' = ReturnedContent(content)
           ELSE IF outcome # "no_choices" /\ ExceptClause(outcome) = "no exception"
           THEN q_pc' = "raised" /\ q_ret' = q_ret
           ELSE IF RetryAfter(config, q_attempt)
           THEN q_pc' = "sleep" /\ q_ret' = q_ret
           ELSE q_pc' = "returned" /\ q_ret' = None
    /\ UNCHANGED <<q_model, q_attempt, q_delay, q_waits>>
    /\ UNCHANGED <<pipeVars, validVars, loadVars, genVars>>

\* lines 160-162 and the next iteration of the for loop
QuerySleep ==
    /\ q_pc = "sleep"
    /\ q_waits' = Append(q_waits, q_delay)
    /\ q_delay' = NextDelay(q_delay)
    /\ q_attempt' = q_attempt + 1
    /\ q_pc' = "attempt"
    /\ UNCHANGED <<q_model, q_made, q_last, q_ret>>
    /\ UNCHANGED <<pipeVars, validVars, loadVars, genVars>>

\* the values query_llm can return for model_id
GatewayResults(cfg, model_id, prov) ==
    IF EntryFails(cfg, model_id, TRUE) THEN {None}
    ELSE (IF prov.fails THEN {None} ELSE {}) \cup {ReturnedContent(t) : t \in prov.texts}

-----------------------------------------------------------------------------
(* multi_judge_evaluator.py: MultiJudgeEvaluator.__init__ *)

\* [m['id'] for m in config.get('llm_models', []) if m.get('role') == role]
RECURSIVE IdsWithRole(_, _)
IdsWithRole(models, role) ==
    IF Len(models) = 0 THEN <<>>
    ELSE (IF Head(models).role = role THEN <<Head(models).id>> ELSE <<>>)
            \o IdsWithRole(Tail(models), role)

\* judge_model_ids taken from the models the gateway loaded instead of the
\* raw list
judge_model_ids_Registered(cfg) ==
    SelectSeq(IdsWithRole(cfg.llm_models, "judge"),
              LAMBDA id : id \in DOMAIN LoadModelConfigs(cfg))
judge_model_ids(cfg) == IdsWithRole(cfg.llm_models, "judge")
meta_judge_models(cfg) == IdsWithRole(cfg.llm_models, "meta-judge")
\* meta_judge_models[0]
meta_judge_model_id(cfg) == Head(meta_judge_models(cfg))

\* InitRaises without the check of lines 28-29
InitRaises_MetaOnly(cfg) == Len(meta_judge_models(cfg)) = 0

\* the two ValueErrors of lines 28-31
InitRaises(cfg) ==
    Len(judge_model_ids(cfg)) = 0 \/ Len(meta_judge_models(cfg)) = 0

-----------------------------------------------------------------------------
(* multi_judge_evaluator.py: load_review_data *)

\* A value of the JSON document of a review file, as json.load types it.
\* The text of a str is a sequence of characters, a run of characters that
\* are not whitespace standing as one.
PyNone == [type |-> "NoneType", text |-> <<>>, items |-> <<>>, d |-> NoObj]
PyStr(t) == [type |-> "str", text |-> t, items |-> <<>>, d |-> NoObj]
PyList(xs) == [type |-> "list", text |-> <<>>, items |-> xs, d |-> NoObj]
PyDict(m) == [type |-> "dict", text |-> <<>>, items |-> <<>>, d |-> m]

\* dict.get(key, default)
DictGet(m, key, default) == IF key \in DOMAIN m THEN m[key] ELSE default
\* bool(x) of a JSON value
PyTruthy(x) ==
    CASE x.type = "NoneType" -> FALSE
      [] x.type = "str" -> Len(x.text) > 0
      [] x.type = "list" -> Len(x.items) > 0
      [] x.type = "dict" -> DOMAIN x.d # {}
      [] OTHER -> TRUE
\* isinstance(x, str) and x.strip()
NonBlankStr(x) == x.type = "str" /\ Len(Strip(x.text)) > 0

\* str(x) inside an f-string
Format(x) ==
    CASE x.type = "str" -> x.text
      [] x.type = "NoneType" -> Chars(<<"None">>)
      [] OTHER -> Chars(<<"(repr)">>)
\* str(i + 1)
Digits(n) == Chars(<<CASE n = 1 -> "1" [] n = 2 -> "2" [] n = 3 -> "3" [] OTHER -> "(number)">>)

\* lines 253-255: bug.get raises AttributeError unless bug is a dict
BugGetRaises(bugs) == \E i \in 1..Len(bugs) : bugs[i].type # "dict"

\* lines 251-256: the formatted bug summary
RECURSIVE BugLines(_, _)
BugLines(bugs, i) ==
    IF i > Len(bugs) THEN <<>>
    ELSE Digits(i) \o Chars(<<".", " ", "Explanation:", " ">>)
            \o Format(DictGet(bugs[i].d, "explanation", PyStr(Chars(<<"N/A">>))))
            \o Chars(<<"\n", " ", " ", " ", "Suggested", " ", "Fix:", " ">>)
            \o Format(DictGet(bugs[i].d, "suggested_fix", PyStr(Chars(<<"N/A">>))))
            \o Chars(<<"\n">>)
            \o BugLines(bugs, i + 1)
FormattedReview(bugs) ==
    Strip(Chars(<<"Bugs", " ", "Found:", "\n">>) \o BugLines(bugs, 1))

\* line 258
NoBugsReview(no_bugs_reasoning) ==
    Chars(<<"No", " ", "Bugs", " ", "Found", " ", "Reasoning:", " ">>) \o no_bugs_reasoning.text

\* lines 273-275
max_context == 2000
CodeContext(code_context) ==
    IF Len(code_context) > max_context
    THEN SubSeq(code_context, 1, max_context \div 2) \o Chars(<<"\n", "...", "\n">>)
            \o SubSeq(code_context, Len(code_context) - max_context \div 2 + 1,
                      Len(code_context))
    ELSE code_context

\* what load_review_data returns: None or the dict of line 276
NotLoaded == [none |-> TRUE, review_text |-> <<>>, code_context |-> PyNone]
ReviewData(text, ctx) == [none |-> FALSE, review_text |-> text, code_context |-> ctx]

\* lines 246-259: review_text_to_judge after the parsed output was looked at
\* (None when it gave no text); only called when no bug.get raises
FromParsed(parsed_output) ==
    IF parsed_output.type # "dict" THEN None
    ELSE LET bugs == DictGet(parsed_output.d, "bugs_found", PyNone)
             no_bugs_reasoning == DictGet(parsed_output.d, "no_bugs_reasoning", PyStr(<<>>))
         IN  IF bugs.type = "list" /\ PyTruthy(bugs) THEN Str(FormattedReview(bugs.items))
             ELSE IF NonBlankStr(no_bugs_reasoning) THEN Str(NoBugsReview(no_bugs_reasoning))
             ELSE None

\* lines 235-282. file is what open() and json.load() make of the review
\* file: json.load raises JSONDecodeError (json = "invalid"), or returns a
\* value, the dict data or another value, on which data.get raises
load_review_data(file) ==
    IF file.json = "invalid" THEN NotLoaded                     \* lines 277-279
    ELSE IF file.data.type # "dict" THEN NotLoaded              \* lines 280-282
    ELSE LET data == file.data.d
             error_during_generation == DictGet(data, "error", PyNone)
             parsed_output == DictGet(data, "parsed_llm_output", PyNone)
             raw_output == DictGet(data, "raw_llm_output", PyNone)
             code_context == DictGet(data, "code_context", PyStr(<<>>))
             bugs == IF parsed_output.type = "dict"
                     THEN DictGet(parsed_output.d, "bugs_found", PyNone) ELSE PyNone
         IN  IF PyTruthy(error_during_generation) THEN NotLoaded        \* lines 243-245
             ELSE IF bugs.type = "list" /\ BugGetRaises(bugs.items)
                  THEN NotLoaded                                       \* lines 280-282
             ELSE LET review_text_to_judge ==
                        IF FromParsed(parsed_output) # None THEN FromParsed(parsed_output)
                        ELSE IF NonBlankStr(raw_output) THEN Str(raw_output.text)
                        ELSE None
                  IN  IF review_text_to_judge = None THEN NotLoaded    \* lines 270-272
                      ELSE IF code_context.type \in {"NoneType", "int"}
                           THEN NotLoaded  \* len() raises TypeError: lines 280-282
                      ELSE ReviewData(review_text_to_judge.text,
                                      IF code_context.type = "str"
                                      THEN PyStr(CodeContext(code_context.text))
                                      ELSE code_context)

\* one call of load_review_data
Load ==
    /\ l_pc = "input"
    /\ l_ret' = load_review_data(l_data)
    /\ l_pc' = "loaded"
    /\ UNCHANGED <<l_data, pipeVars, queryVars, validVars, genVars>>

\* A review file of each kind: not JSON; JSON but not an object; with a
\* recorded generation error; with no review text; with a bug list, with a
\* rationale, with raw text only
TextOf(words) == PyStr(Chars(words))
ReviewFileKinds ==
    {[json |-> "invalid", data |-> PyNone],
     [json |-> "valid", data |-> PyList(<<>>)],
     [json |-> "valid",
      data |-> PyDict([error |-> TextOf(<<"No", " ", "response">>),
                       raw_llm_output |-> PyNone, parsed_llm_output |-> PyNone])],
     [json |-> "valid",
      data |-> PyDict([error |-> PyNone, raw_llm_output |-> TextOf(<<" ">>),
                       parsed_llm_output |-> PyNone])],
     [json |-> "valid",
      data |-> PyDict([error |-> PyNone, raw_llm_output |-> TextOf(<<"{", "}">>),
                       parsed_llm_output |->
                            PyDict([bugs_found |-> PyList(<<PyDict([explanation |-> TextOf(<<"leak">>)])>>),
                                    no_bugs_reasoning |-> TextOf(<<>>)])])],
     [json |-> "valid",
      data |-> PyDict([error |-> PyNone, raw_llm_output |-> TextOf(<<"{", "}">>),
                       parsed_llm_output |->
                            PyDict([bugs_found |-> PyList(<<>>),
                                    no_bugs_reasoning |-> TextOf(<<"fine">>)])])],
     [json |-> "valid", data |-> PyDict([raw_llm_output |-> TextOf(<<"looks", " ", "fine">>)])]}

-----------------------------------------------------------------------------
(* multi_judge_evaluator.py: evaluate_review_consensus, run_evaluation_pipeline *)

\* asyncio.Semaphore(10), scaled down to keep the state space finite
SEMAPHORE_SLOTS == 2

\* asyncio.to_thread (lines 122 and 169) hands the query_llm call to the
\* event loop's default ThreadPoolExecutor: the call runs at once if fewer
\* than max_workers calls are running, and otherwise waits in the
\* executor's queue until a running call returns. The call of judge j for
\* file f is <<f, j>>, the meta-judge call for f is <<f, 0>>.
RECURSIVE Dispatch(_)
Dispatch(ex) ==
    IF Len(ex.queue) > 0 /\ Cardinality(ex.running) < ex.max_workers
    THEN Dispatch([ex EXCEPT !.running = @ \cup {Head(ex.queue)}, !.queue = Tail(@)])
    ELSE ex
\* the calls of cs are handed to the executor, in order
Submit(ex, cs) == Dispatch([ex EXCEPT !.queue = @ \o cs])
\* the call c returns: its thread takes the next call of the queue
Release(ex, c) == Dispatch([ex EXCEPT !.running = @ \ {c}])
\* the call c is in a thread and that thread is not stuck in it
CanReturn(ex, c) == c \in ex.running /\ c \notin ex.hung

\* a judge task of the gather whose query_llm call has not returned yet
Pending(judge_id) ==
    [judge_id |-> judge_id, raw_output |-> None, parsed_result |-> NoParsed,
     error |-> "(call outstanding)"]
IsPending(r) == r.error = "(call outstanding)"

\* before _run_meta_judge returned
NoMeta ==
    [model_id |-> "", raw_output |-> None, parsed_result |-> NoParsed,
     error |-> "(not returned)"]

\* ResultFile keeping only the valid verdicts in the judges entry
ResultFile_ValidOnly(by, js, m) ==
    [exists |-> TRUE, written_by |-> by,
     judges |-> SelectSeq(js, LAMBDA r : ~r.parsed_result.none), meta_judge |-> m]

\* a result file: the judges and meta_judge entries of evaluation_result
NoFile == [exists |-> FALSE, written_by |-> "", judges |-> <<>>, meta_judge |-> NoMeta]
ResultFile(by, js, m) ==
    [exists |-> TRUE, written_by |-> by, judges |-> js, meta_judge |-> m]

\* lines 314-315: the result file of review file f is named after the stem
\* of f alone, whatever subdirectory rglob found f in
output_path(f) == stems[f]

\* the files whose task still waits for the semaphore
Waiting == {f \in review_files : pc[f] = "discovered"}
\* the files whose task holds a slot of the semaphore
Holding == {f \in review_files : pc[f] \in {"judging", "meta"}}
Terminal == {"saved", "save_failed", "not_loaded"}

\* async with semaphore (line 306): the task enters when a slot is free
SemaphoreFree_Unbounded == TRUE
SemaphoreFree_OffByOne == semaphore >= 0
SemaphoreFree == semaphore > 0

\* __main__, lines 344-351: the checks made before the pipeline is started
Main ==
    /\ run = "main"
    /\ \E config_file_exists, reviews_input_is_dir \in BOOLEAN :
        run' = IF ~config_file_exists THEN "no_config_file"
               ELSE IF ~reviews_input_is_dir THEN "no_reviews_dir"
               ELSE "init"
    /\ UNCHANGED <<config, provider, review_files, stems, semaphore, pc, judges,
                   outputs, calls, writes, existed, executor>>
    /\ UNCHANGED <<queryVars, validVars, loadVars, genVars>>

\* the states of run in which the process has ended
Ended == {"no_config_file", "no_reviews_dir", "aborted", "finished", "crashed"}

\* __main__, lines 344-362: exit(1) when a check of lines 344-349 fails or
\* when an exception leaves asyncio.run; otherwise run_evaluation_pipeline
\* returned, whether by a "return" of lines 291, 297, 301 or at its end, and
\* the process ends with status 0
ExitStatus(r) ==
    IF r \in {"no_config_file", "no_reviews_dir", "crashed"} THEN 1 ELSE 0

\* lines 284-303 and 325: load the configuration, build client and evaluator,
\* list the review files, create one task per file
Startup ==
    /\ run = "init"
    /\ run' = IF InitRaises(config) THEN "aborted"
              ELSE IF review_files = {} THEN "finished"
              ELSE "running"
    /\ UNCHANGED <<config, provider, review_files, stems, semaphore, pc, judges,
                   outputs, calls, writes, existed, executor>>
    /\ UNCHANGED <<queryVars, validVars, loadVars, genVars>>

\* Acquire with the early return of an unloadable review leaving the
\* semaphore without releasing it
Acquire_KeepsSlot(f) ==
    /\ run = "running"
    /\ pc[f] = "discovered"
    /\ \A g \in Waiting : f <= g
    /\ SemaphoreFree
    /\ \E file \in ReviewFileKinds :
        IF ~load_review_data(file).none
        THEN /\ semaphore' = semaphore - 1
             /\ pc' = [pc EXCEPT ![f] = "judging"]
             /\ judges' = [judges EXCEPT ![f] =
                    [j \in 1..Len(judge_model_ids(config)) |->
                        Pending(judge_model_ids(config)[j])]]
             /\ calls' = [calls EXCEPT ![f] = @ + Len(judge_model_ids(config))]
             /\ executor' = Submit(executor,
                    [j \in 1..Len(judge_model_ids(config)) |-> <<f, j>>])
        ELSE /\ pc' = [pc EXCEPT ![f] = "not_loaded"]
             /\ semaphore' = semaphore - 1
             /\ UNCHANGED <<judges, calls, executor>>
    /\ UNCHANGED <<config, provider, review_files, stems, run, outputs, writes, existed>>
    /\ UNCHANGED <<queryVars, validVars, loadVars, genVars>>

\* lines 306-313 and 216-218: the task of file f enters the semaphore (tasks
\* enter in list order: asyncio wakes waiters first come, first served),
\* loads the review and, if there is one, starts one query_llm call per judge
Acquire(f) ==
    /\ run = "running"
    /\ pc[f] = "discovered"
    /\ \A g \in Waiting : f <= g
    /\ SemaphoreFree
    /\ \E file \in ReviewFileKinds :
        IF ~load_review_data(file).none
        THEN /\ semaphore' = semaphore - 1
             /\ pc' = [pc EXCEPT ![f] = "judging"]
             /\ judges' = [judges EXCEPT ![f] =
                    [j \in 1..Len(judge_model_ids(config)) |->
                        Pending(judge_model_ids(config)[j])]]
             /\ calls' = [calls EXCEPT ![f] = @ + Len(judge_model_ids(config))]
             /\ executor' = Submit(executor,
                    [j \in 1..Len(judge_model_ids(config)) |-> <<f, j>>])
        ELSE /\ pc' = [pc EXCEPT ![f] = "not_loaded"]
             /\ UNCHANGED <<semaphore, judges, calls, executor>>
    /\ UNCHANGED <<config, provider, review_files, stems, run, outputs, writes, existed>>
    /\ UNCHANGED <<queryVars, validVars, loadVars, genVars>>

\* JudgeReturn collecting the results in completion order (as
\* asyncio.as_completed would) instead of the order of the judge list
JudgeReturn_AsCompleted(f, j) ==
    /\ run = "running"
    /\ pc[f] = "judging"
    /\ j \in DOMAIN judges[f]
    /\ IsPending(judges[f][j])
    /\ CanReturn(executor, <<f, j>>)
    /\ executor' = Release(executor, <<f, j>>)
    /\ LET first == CHOOSE k \in DOMAIN judges[f] :
                        /\ IsPending(judges[f][k])
                        /\ \A i \in DOMAIN judges[f] : IsPending(judges[f][i]) => k <= i
       IN  \E raw_output \in GatewayResults(config, judges[f][j].judge_id,
                                             provider[judges[f][j].judge_id]) :
                judges' = [judges EXCEPT
                    ![f][j] = judges[f][first],
                    ![f][first] = JudgeResult(judges[f][j].judge_id, raw_output)]
    /\ UNCHANGED <<config, provider, review_files, stems, run, semaphore, pc,
                   outputs, calls, writes, existed>>
    /\ UNCHANGED <<queryVars, validVars, loadVars, genVars>>

\* lines 122-160: the query_llm call of judge j for file f returns
JudgeReturn(f, j) ==
    /\ run = "running"
    /\ pc[f] = "judging"
    /\ j \in DOMAIN judges[f]
    /\ IsPending(judges[f][j])
    /\ CanReturn(executor, <<f, j>>)
    /\ executor' = Release(executor, <<f, j>>)
    /\ \E raw_output \in GatewayResults(config, judges[f][j].judge_id,
                                        provider[judges[f][j].judge_id]) :
        judges' = [judges EXCEPT ![f][j] = JudgeResult(judges[f][j].judge_id, raw_output)]
    /\ UNCHANGED <<config, provider, review_files, stems, run, semaphore, pc,
                   outputs, calls, writes, existed>>
    /\ UNCHANGED <<queryVars, validVars, loadVars, genVars>>

\* AllJudgesResolved waiting for the first judge only
AllJudgesResolved_First(f) == \E j \in DOMAIN judges[f] : ~IsPending(judges[f][j])

\* the gather of line 218 is complete
AllJudgesResolved(f) == \A j \in DOMAIN judges[f] : ~IsPending(judges[f][j])

\* lines 218-220 and 164-175: the gather returns and _run_meta_judge starts
\* its query_llm call (judge_model_ids is never empty after __init__, so the
\* early return of lines 164-166 is not taken) after building the prompt
MetaStart(f) ==
    /\ run = "running"
    /\ pc[f] = "judging"
    /\ AllJudgesResolved(f)
    /\ IF PromptRaises(judges[f])
       THEN \* the exception leaves the task and ends the gather of line 326
            /\ pc' = [pc EXCEPT ![f] = "crashed"]
            /\ run' = "crashed"
            /\ semaphore' = semaphore + 1
            /\ judges' = [judges EXCEPT ![f] = <<>>]
            /\ UNCHANGED <<calls, executor>>
       ELSE /\ pc' = [pc EXCEPT ![f] = "meta"]
            /\ calls' = [calls EXCEPT ![f] = @ + 1]
            /\ executor' = Submit(executor, <<<<f, 0>>>>)
            /\ UNCHANGED <<run, semaphore, judges>>
    /\ UNCHANGED <<config, provider, review_files, stems, outputs, writes, existed>>
    /\ UNCHANGED <<queryVars, validVars, loadVars, genVars>>

\* OnWriteError with no except clause around the write: the exception
\* leaves the task and the gather of line 326
OnWriteError_NotCaught == "raised"

\* lines 321-322: "except Exception" catches whatever mkdir, open or
\* json.dump raised and logs it
OnWriteError == "logged"

\* lines 176-208, 221-232 and 314-323: the meta-judge call returns, the
\* result is assembled and written (open() may fail), the slot is released
\* and the task ends, its local results with it
MetaReturn(f) ==
    /\ run = "running"
    /\ pc[f] = "meta"
    /\ CanReturn(executor, <<f, 0>>)
    /\ executor' = Release(executor, <<f, 0>>)
    /\ \E raw_output \in GatewayResults(config, meta_judge_model_id(config),
                                        provider[meta_judge_model_id(config)]),
          write_ok \in BOOLEAN :
        /\ IF write_ok
           THEN /\ outputs' = [outputs EXCEPT ![output_path(f)] =
                        ResultFile("this run", judges[f],
                            MetaResult(meta_judge_model_id(config), raw_output))]
                /\ writes' = [writes EXCEPT ![output_path(f)] = @ + 1]
                /\ pc' = [pc EXCEPT ![f] = "saved"]
                /\ UNCHANGED run
           ELSE /\ pc' = [pc EXCEPT ![f] = "save_failed"]
                /\ run' = IF OnWriteError = "logged" THEN run ELSE "crashed"
                /\ UNCHANGED <<outputs, writes>>
    /\ judges' = [judges EXCEPT ![f] = <<>>]
    /\ semaphore' = semaphore + 1
    /\ UNCHANGED <<config, provider, review_files, stems, calls, existed>>
    /\ UNCHANGED <<queryVars, validVars, loadVars, genVars>>

\* llm_client.py line 133 inside the thread of lines 122 / 169: the request of
\* a running query_llm call neither answers nor raises (the code sets no
\* timeout of its own), and the thread stays in it for good
Hang(f, j) ==
    /\ run = "running"
    /\ CanReturn(executor, <<f, j>>)
    /\ provider[IF j = 0 THEN meta_judge_model_id(config)
                ELSE judge_model_ids(config)[j]].hangs
    /\ executor' = [executor EXCEPT !.hung = @ \cup {<<f, j>>}]
    /\ UNCHANGED <<config, provider, review_files, stems, run, semaphore, pc, judges,
                   outputs, calls, writes, existed>>
    /\ UNCHANGED <<queryVars, validVars, loadVars, genVars>>

\* Where the task of a review file stands, in the terms of the per-review
\* state machine: waiting for the semaphore (discovered), inside the gather
\* of line 218 (dispatched), past it with the meta-judge call not yet
\* returned (judged), result written (persisted), ended without a result
\* (failed)
StageOf(p, js) ==
    CASE p = "discovered" -> "discovered"
      [] p = "judging" ->
            IF \E j \in DOMAIN js : IsPending(js[j]) THEN "dispatched" ELSE "judged"
      [] p = "meta" -> "judged"
      [] p = "saved" -> "persisted"
      [] OTHER -> "failed"

\* The stages a task goes through in one step from position p to position
\* q. Two steps run through a stage without stopping in it, as there is no
\* await in between: lines 306-309 take the slot and then find that the
\* review does not load; lines 220-322 get the meta-judge result and then
\* write, or fail to write, the file
StagesPassed(p, js, q, js2) ==
    <<StageOf(p, js)>> \o
    ( IF p = "discovered" /\ q = "not_loaded" THEN <<"dispatched", "failed">>
      ELSE IF p = "meta" /\ q = "saved" THEN <<"synthesized", "persisted">>
      ELSE IF p = "meta" /\ q = "save_failed" THEN <<"synthesized", "failed">>
      ELSE IF StageOf(q, js2) # StageOf(p, js) THEN <<StageOf(q, js2)>>
      ELSE <<>> )

\* the query_llm calls of the task of file f that have started and not
\* returned: the judge calls of the gather (lines 217-218), or the
\* meta-judge call (lines 169-175)
Outstanding(f) ==
    Cardinality({j \in DOMAIN judges[f] : IsPending(judges[f][j])})
        + (IF pc[f] = "meta" THEN 1 ELSE 0)

\* lines 326-328: the gather over all files returns
Finish ==
    /\ run = "running"
    /\ \A f \in review_files : pc[f] \in Terminal
    /\ run' = "finished"
    /\ UNCHANGED <<config, provider, review_files, stems, semaphore, pc, judges,
                   outputs, calls, writes, existed, executor>>
    /\ UNCHANGED <<queryVars, validVars, loadVars, genVars>>

-----------------------------------------------------------------------------
(* generate_ai_reviews.py: generate_review_for_item, run_review_generation *)

\* the slots of asyncio.Semaphore(3), line 241
GEN_SEMAPHORE_SLOTS == 2

GEN_ERR_NO_RESPONSE == "No response from LLM ..."
GEN_ERR_STRUCTURE == "Unexpected JSON structure in LLM output"
GEN_ERR_JSON == "Invalid JSON format in LLM output"
GEN_ERR_EXCEPTION == "Exception parsing LLM output: ..."

\* line 194
generator_model_ids(cfg) == IdsWithRole(cfg.llm_models, "generator")

\* lines 109-112: the output file name of an item with a generator model
OutputFilename(item, model_id) == <<item.source, item.id, "review", model_id>>

\* lines 152-156: the fence is cut off a fenced answer; another answer is
\* parsed as it is
GenJsonStr(text) ==
    IF StartsWith(Strip(text), FENCE_JSON) THEN Strip(Slice(Strip(text), 7, 3))
    ELSE IF StartsWith(Strip(text), FENCE) THEN Strip(Slice(Strip(text), 3, 3))
    ELSE text

\* lines 138-172: result_data for the answer raw_response
ResultData(raw_response) ==
    LET parsed == JsonLoads(GenJsonStr(raw_response.text))
        member(key) == IF key \in DOMAIN parsed.d THEN parsed.d[key].kind ELSE "null"
        error ==
            IF ~Truthy(raw_response) THEN GEN_ERR_NO_RESPONSE
            ELSE IF parsed.type = "JSONDecodeError" THEN GEN_ERR_JSON
            ELSE IF parsed.type # "dict" THEN GEN_ERR_EXCEPTION
            ELSE IF member("bugs_found") = "list" /\ member("no_bugs_reasoning") = "str"
                 THEN NoError
            ELSE GEN_ERR_STRUCTURE
    IN  [exists |-> TRUE, raw_llm_output |-> raw_response,
         parsed_llm_output |-> IF error = NoError THEN Parsed(parsed.d) ELSE NoParsed,
         error |-> error]

NoReviewFile ==
    [exists |-> FALSE, raw_llm_output |-> None, parsed_llm_output |-> NoParsed,
     error |-> "(no file)"]

\* OutputExists looking for a file with a parsed review only
OutputExists_ParsedOnly(file) == file.exists /\ file.error = NoError

\* line 114: output_path.exists()
OutputExists(file) == file.exists

GenPairs == DOMAIN g_pc
GenPath(p) == OutputFilename(g_items[p[1]], generator_model_ids(config)[p[2]])
GenRunning == g_pass \in {"first", "second"}

\* lines 183-251: the configuration is read, the items are collected and
\* one task per item and generator model is made
GenStartup ==
    /\ g_pass = "startup"
    /\ g_pass' = IF Len(generator_model_ids(config)) = 0 \/ DOMAIN g_items = {}
                 THEN "ended" ELSE "first"
    /\ UNCHANGED <<g_items, g_pc, g_sem, g_files, g_calls, g_wrote>>
    /\ UNCHANGED <<pipeVars, queryVars, validVars, loadVars>>

\* lines 243-245 and 109-133: the task of the pair p enters the semaphore;
\* it ends at once if its output file exists (114-116) or no code snippet
\* is found (118-121), and otherwise starts its query_llm call
GenStart(p) ==
    /\ GenRunning
    /\ g_pc[p] = "waiting"
    /\ g_sem > 0
    /\ \E code_info \in BOOLEAN :
        IF OutputExists(g_files[GenPath(p)])
        THEN /\ g_pc' = [g_pc EXCEPT ![p] = "skipped"]
             /\ UNCHANGED <<g_sem, g_calls>>
        ELSE IF ~code_info
        THEN /\ g_pc' = [g_pc EXCEPT ![p] = "no_snippet"]
             /\ UNCHANGED <<g_sem, g_calls>>
        ELSE /\ g_pc' = [g_pc EXCEPT ![p] = "calling"]
             /\ g_sem' = g_sem - 1
             /\ g_calls' = [g_calls EXCEPT ![g_pass][p] = @ + 1]
    /\ UNCHANGED <<g_pass, g_items, g_files, g_wrote>>
    /\ UNCHANGED <<pipeVars, queryVars, validVars, loadVars>>

\* lines 126-180: query_llm returns, result_data is built and written
\* (mkdir, open or json.dump may raise, which is logged), the task ends and
\* the slot is released
GenReturn(p) ==
    /\ GenRunning
    /\ g_pc[p] = "calling"
    /\ \E raw_response \in GatewayResults(config, generator_model_ids(config)[p[2]],
                                          provider[generator_model_ids(config)[p[2]]]),
          write_ok \in BOOLEAN :
        IF write_ok
        THEN /\ g_files' = [g_files EXCEPT ![GenPath(p)] = ResultData(raw_response)]
             /\ g_wrote' = [g_wrote EXCEPT ![g_pass] = @ \cup {p}]
             /\ g_pc' = [g_pc EXCEPT ![p] = "written"]
        ELSE /\ g_pc' = [g_pc EXCEPT ![p] = "write_failed"]
             /\ UNCHANGED <<g_files, g_wrote>>
    /\ g_sem' = g_sem + 1
    /\ UNCHANGED <<g_pass, g_items, g_calls>>
    /\ UNCHANGED <<pipeVars, queryVars, validVars, loadVars>>

\* lines 253-255: the gather returns and the run ends; the script is then
\* run a second time over the same items and output directory
GenFinish ==
    /\ GenRunning
    /\ \A p \in GenPairs : g_pc[p] \notin {"waiting", "calling"}
    /\ IF g_pass = "first"
       THEN /\ g_pass' = "second"
            /\ g_pc' = [p \in GenPairs |-> "waiting"]
            /\ g_sem' = GEN_SEMAPHORE_SLOTS
       ELSE /\ g_pass' = "ended"
            /\ UNCHANGED <<g_pc, g_sem>>
    /\ UNCHANGED <<g_items, g_files, g_calls, g_wrote>>
    /\ UNCHANGED <<pipeVars, queryVars, validVars, loadVars>>

-----------------------------------------------------------------------------
(* Inputs: configurations, provider responses, review files *)

NumReviewFiles == 3
NumTreeFiles == 2
MaxRetriesTried == 4

EmptyDict == [k \in {} |-> 0]

LLM_PROVIDERS ==
    [groq |-> [api_key |-> TRUE, base_url |-> TRUE],
     nokey |-> [api_key |-> FALSE, base_url |-> TRUE],
     nourl |-> [api_key |-> TRUE, base_url |-> FALSE]]

ModelEntry(id, role, prov) ==
    [id |-> id, role |-> role, provider |-> prov, model_name |-> "upstream"]

Config(models, retry) ==
    [llm_models |-> models, llm_providers |-> LLM_PROVIDERS, multi_judge_config |-> retry]

TwoJudges ==
    <<ModelEntry("judgeA", "judge", "groq"), ModelEntry("gen", "generator", "groq"),
      ModelEntry("judgeB", "judge", "groq"), ModelEntry("metaM", "meta-judge", "groq"),
      ModelEntry("metaN", "meta-judge", "groq")>>
ThreeJudges ==
    <<ModelEntry("judgeA", "judge", "groq"), ModelEntry("judgeB", "judge", "groq"),
      ModelEntry("judgeK", "judge", "nokey"), ModelEntry("metaM", "meta-judge", "groq")>>
NoJudge == <<ModelEntry("gen", "generator", "groq"), ModelEntry("metaM", "meta-judge", "groq")>>
NoMetaJudge == <<ModelEntry("judgeA", "judge", "groq"), ModelEntry("gen", "generator", "groq")>>

\* configurations with a judge entry that _load_model_configs skips: its
\* provider has no base_url, or is not in llm_providers, or is not named,
\* or the entry has no model_name
SkippedEntries ==
    {ModelEntry("judgeD", "judge", "nourl"), ModelEntry("judgeD", "judge", "elsewhere"),
     ModelEntry("judgeD", "judge", ""),
     [ModelEntry("judgeD", "judge", "groq") EXCEPT !.model_name = ""]}
WithSkipped(e) ==
    <<ModelEntry("judgeA", "judge", "groq"), e, ModelEntry("judgeB", "judge", "groq"),
      ModelEntry("metaM", "meta-judge", "groq")>>

ModelIds == {"judgeA", "judgeB", "judgeD", "judgeK", "metaM", "metaN", "gen", "ghost"}

\* judge and meta-judge payloads
JudgeObj(fc, a, ad) ==
    [k \in {"factual_correctness", "actionability", "analytical_depth", "reasoning"} |->
        CASE k = "factual_correctness" -> fc
          [] k = "actionability" -> a
          [] k = "analytical_depth" -> ad
          [] OTHER -> JStr]
MetaObj(fc, a, ad) ==
    [k \in {"final_factual_correctness", "final_actionability",
            "final_analytical_depth", "analysis", "consensus_reasoning"} |->
        CASE k = "final_factual_correctness" -> fc
          [] k = "final_actionability" -> a
          [] k = "final_analytical_depth" -> ad
          [] OTHER -> JStr]
Without(d, key) == [k \in DOMAIN d \ {key} |-> d[k]]

\* the text of a JSON object, bare and inside a code fence
ObjText(d) == <<Ch("{"), ObjCh(d), Ch("}")>>
JsonFenced(t) == FENCE_JSON \o <<Ch("\n")>> \o t \o <<Ch("\n")>> \o FENCE

Malformed == Chars(<<"o", "o", "p", "s">>)

JudgeGood == ObjText(JudgeObj(JInt(4), JInt(SCORE_MIN), JInt(SCORE_MAX)))
MetaGood == ObjText(MetaObj(JInt(3), JInt(SCORE_MIN), JInt(SCORE_MAX)))

JudgeTexts ==
    {JudgeGood,
     JsonFenced(ObjText(JudgeObj(JInt(2), JInt(2), JInt(3)))),
     Malformed,
     ObjText(JudgeObj(JInt(4), JInt(SCORE_MAX + 1), JInt(4))),
     ObjText(Without(JudgeObj(JInt(4), JInt(4), JInt(4)), "reasoning")),
     ObjText(JudgeObj(JBool(TRUE), JInt(3), JInt(3))),
     <<>>}
MetaTexts ==
    {MetaGood,
     Malformed,
     ObjText(MetaObj(JInt(SCORE_MIN - 1), JInt(4), JInt(4))),
     <<Ch(" ")>>}

\* what each model's provider does in a batch run / in one evaluation: the
\* contents it answers with, and whether its requests can fail
BatchProvider ==
    [m \in ModelIds |->
        [texts |-> IF m \in {"metaM", "metaN"} THEN {MetaGood, Malformed} ELSE {JudgeGood},
         fails |-> m # "judgeB", hangs |-> FALSE]]
\* answers of a generator model: a review, bare and fenced; text that is
\* not JSON; a JSON list; an object without no_bugs_reasoning
ReviewGood == ObjText([bugs_found |-> JList, no_bugs_reasoning |-> JStr])
GenTexts ==
    {ReviewGood, JsonFenced(ReviewGood), Malformed, <<Ch("["), Ch("]")>>,
     ObjText([bugs_found |-> JList])}

RichProvider ==
    [m \in ModelIds |->
        [texts |-> IF m \in {"metaM", "metaN"} THEN MetaTexts
                   ELSE IF m = "gen" THEN GenTexts ELSE JudgeTexts,
         fails |-> TRUE, hangs |-> FALSE]]

\* the result file an earlier run left behind
OldFile(cfg) ==
    ResultFile("an earlier run",
        [j \in 1..Len(judge_model_ids(cfg)) |->
            JudgeResult(judge_model_ids(cfg)[j], Str(JudgeGood))],
        MetaResult(meta_judge_model_id(cfg), Str(MetaGood)))

-----------------------------------------------------------------------------
(* Specifications *)

\* an executor with max_workers threads and nothing running
IdleExecutor(n) == [max_workers |-> n, running |-> {}, queue |-> <<>>, hung |-> {}]
\* a pool with a thread for every call the files can have in flight at once
AmplePool(files) == {3 * Cardinality(files) + 1}

PipeInit(cfgs, files, layouts, prov, pools) ==
    /\ config \in cfgs
    /\ provider = prov
    /\ review_files = files
    /\ stems \in layouts
    /\ run = "main"
    /\ semaphore = SEMAPHORE_SLOTS
    /\ pc = [f \in files |-> "discovered"]
    /\ judges = [f \in files |-> <<>>]
    /\ existed \in (IF InitRaises(config) THEN {{}} ELSE SUBSET (files \cap {1}))
    /\ outputs = [p \in {stems[f] : f \in files} |->
                    IF \E f \in existed : stems[f] = p THEN OldFile(config) ELSE NoFile]
    /\ calls = [f \in files |-> 0]
    /\ writes = [p \in {stems[f] : f \in files} |-> 0]
    /\ executor \in {IdleExecutor(n) : n \in pools}

PipeIdle(cfgs) ==
    /\ config \in cfgs
    /\ provider = RichProvider
    /\ review_files = {}
    /\ stems = EmptyDict
    /\ run = "off"
    /\ semaphore = 0
    /\ pc = EmptyDict /\ judges = EmptyDict
    /\ outputs = EmptyDict /\ calls = EmptyDict /\ writes = EmptyDict
    /\ existed = {}
    /\ executor = IdleExecutor(0)

QueryInit ==
    /\ q_pc = "entry"
    /\ q_model \in {"judgeA", "metaM", "judgeK", "ghost"}
    /\ q_attempt = 0 /\ q_delay = 0 /\ q_made = 0
    /\ q_waits = <<>>
    /\ q_last = "(none)"
    /\ q_ret = None

QueryIdle ==
    /\ q_pc = "off"
    /\ q_model = ""
    /\ q_attempt = 0 /\ q_delay = 0 /\ q_made = 0
    /\ q_waits = <<>>
    /\ q_last = "(none)"
    /\ q_ret = None

ValidIdle ==
    /\ v_pc = "off"
    /\ v_raw = None
    /\ v_res = NoMeta

GenIdle ==
    /\ g_pass = "off"
    /\ g_items = EmptyDict /\ g_pc = EmptyDict /\ g_files = EmptyDict
    /\ g_sem = 0
    /\ g_calls = EmptyDict
    /\ g_wrote = EmptyDict

LoadIdle ==
    /\ l_pc = "off"
    /\ l_data = [json |-> "invalid", data |-> PyNone]
    /\ l_ret = NotLoaded

\* the review files of a flat input directory: no two share a stem
FlatLayout(files) == {[f \in files |-> f]}
\* the review files of an input directory with subdirectories: files of
\* different subdirectories may have the same name
TreeLayouts(files) == {s \in [files -> files] : \A f \in files : s[f] <= f}

\* the batch run over NumReviewFiles review files of a flat input directory
Init ==
    /\ PipeInit({Config(TwoJudges, EmptyDict), Config(NoJudge, EmptyDict),
                 Config(NoMetaJudge, EmptyDict)},
                1..NumReviewFiles, FlatLayout(1..NumReviewFiles), BatchProvider,
                AmplePool(1..NumReviewFiles))
    /\ QueryIdle
    /\ ValidIdle
    /\ LoadIdle
    /\ GenIdle

Next ==
    \/ Main
    \/ Startup
    \/ \E f \in review_files : Acquire(f)
    \/ \E f \in review_files, j \in 1..Len(judge_model_ids(config)) : JudgeReturn(f, j)
    \/ \E f \in review_files : MetaStart(f)
    \/ \E f \in review_files : MetaReturn(f)
    \/ Finish

Spec == Init /\ [][Next]_vars

\* one review file, every kind of provider answer
EvalInit ==
    /\ PipeInit({Config(TwoJudges, EmptyDict), Config(ThreeJudges, EmptyDict)},
                {1}, FlatLayout({1}), RichProvider, AmplePool({1}))
    /\ QueryIdle
    /\ ValidIdle
    /\ LoadIdle
    /\ GenIdle

EvalSpec == EvalInit /\ [][Next]_vars

\* the batch run over the review files of an input directory with
\* subdirectories
TreeInit ==
    /\ PipeInit({Config(TwoJudges, EmptyDict)}, 1..NumTreeFiles,
                TreeLayouts(1..NumTreeFiles), BatchProvider,
                AmplePool(1..NumTreeFiles))
    /\ QueryIdle
    /\ ValidIdle
    /\ LoadIdle
    /\ GenIdle

TreeSpec == TreeInit /\ [][Next]_vars

\* the batch run with providers whose requests may hang. The default
\* executor of asyncio.to_thread has min(32, os.cpu_count() + 4) threads, a
\* number the machine decides; here it is small, as SEMAPHORE_SLOTS is.
NumHangFiles == 2
HangPools == {SEMAPHORE_SLOTS, SEMAPHORE_SLOTS + 1}
HangProvider ==
    [m \in ModelIds |-> [texts |-> {<<>>}, fails |-> TRUE, hangs |-> TRUE]]
HangInit ==
    /\ PipeInit({Config(TwoJudges, EmptyDict)}, 1..NumHangFiles,
                FlatLayout(1..NumHangFiles), HangProvider, HangPools)
    /\ QueryIdle
    /\ ValidIdle
    /\ LoadIdle
    /\ GenIdle
HangNext ==
    \/ Next
    \/ \E f \in review_files, j \in 0..Len(judge_model_ids(config)) : Hang(f, j)
\* the event loop runs every task that can run, and every request that does
\* not hang returns
HangSpec == HangInit /\ [][HangNext]_vars /\ WF_vars(Next)

\* the generation script run twice over the same items and output
\* directory; two items may carry the same source and id (pull requests of
\* two repositories with the same number)
NumItems == 2
ItemLayouts ==
    {[i \in 1..NumItems |-> [source |-> "github", id |-> i]],
     [i \in 1..NumItems |-> [source |-> "github", id |-> IF i = 2 THEN 1 ELSE i]]}
GenInit ==
    /\ PipeIdle({Config(TwoJudges, EmptyDict), Config(ThreeJudges, EmptyDict)})
    /\ QueryIdle
    /\ ValidIdle
    /\ l_pc = "off" /\ l_data = [json |-> "invalid", data |-> PyNone] /\ l_ret = NotLoaded
    /\ g_pass = "startup"
    /\ g_items \in ItemLayouts
    /\ g_pc = [p \in (1..NumItems) \X (1..Len(generator_model_ids(config))) |-> "waiting"]
    /\ g_sem = GEN_SEMAPHORE_SLOTS
    /\ g_files = [f \in {OutputFilename(g_items[i], generator_model_ids(config)[m]) :
                            i \in 1..NumItems, m \in 1..Len(generator_model_ids(config))} |->
                    NoReviewFile]
    /\ g_calls = [r \in {"first", "second"} |-> [p \in DOMAIN g_pc |-> 0]]
    /\ g_wrote = [r \in {"first", "second"} |-> {}]
GenNext ==
    \/ GenStartup
    \/ \E p \in GenPairs : GenStart(p)
    \/ \E p \in GenPairs : GenReturn(p)
    \/ GenFinish
GenSpec == GenInit /\ [][GenNext]_vars

\* one call of load_review_data on one review file
Absent == [type |-> "(absent)", text |-> <<>>, items |-> <<>>, d |-> NoObj]
\* the dict with the members of m that are present
Present(m) == [k \in {x \in DOMAIN m : m[x] # Absent} |-> m[k]]
BugEntries ==
    {PyDict([explanation |-> PyStr(Chars(<<"off-by-one">>)),
             suggested_fix |-> PyStr(Chars(<<"use", " ", "<=">>))]),
     PyDict([explanation |-> PyStr(Chars(<<"leak">>))]),
     PyStr(Chars(<<"null", " ", "dereference">>))}
BugLists ==
    {PyList(<<>>)} \cup {PyList(<<b>>) : b \in BugEntries}
        \cup {PyList(<<b, c>>) : b \in BugEntries, c \in BugEntries}
ParsedOutputs ==
    {PyNone, PyStr(Chars(<<"text">>))} \cup
    {PyDict(Present([bugs_found |-> b, no_bugs_reasoning |-> r])) :
        b \in BugLists \cup {Absent, PyStr(Chars(<<"none">>))},
        r \in {Absent, PyNone, PyStr(<<>>), PyStr(Chars(<<" ", "\n">>)),
               PyStr(Chars(<<"the", " ", "code", " ", "is", " ", "fine">>))}}
RawOutputs ==
    {Absent, PyNone, PyStr(<<>>), PyStr(Chars(<<" ">>)),
     PyStr(Chars(<<" ", "{", "}", "\n">>))}
ReviewFileContents ==
    {[json |-> "invalid", data |-> PyNone], [json |-> "valid", data |-> PyList(<<>>)]}
    \cup {[json |-> "valid",
           data |-> PyDict(Present([error |-> e, parsed_llm_output |-> p,
                                    raw_llm_output |-> r, code_context |-> c]))] :
            e \in {Absent, PyNone, PyStr(Chars(<<"Invalid", " ", "JSON">>))},
            p \in ParsedOutputs, r \in RawOutputs,
            c \in {Absent, PyNone, PyStr(Chars(<<"def", " ", "f():">>))}}

LoaderInit ==
    /\ PipeIdle({Config(TwoJudges, EmptyDict)})
    /\ QueryIdle
    /\ ValidIdle
    /\ l_pc = "input"
    /\ l_data \in ReviewFileContents
    /\ l_ret = NotLoaded
    /\ GenIdle

LoaderSpec == LoaderInit /\ [][Load]_vars

\* one validation of one raw output, as a judge's and as the meta-judge's
Missing == [kind |-> "missing", val |-> 0]
ScoreValues ==
    {JInt(SCORE_MIN - 1), JInt(SCORE_MIN), JInt(SCORE_MAX), JInt(SCORE_MAX + 1),
     JBool(TRUE), JBool(FALSE), JFloat(3), JFloat(9), JStr, JNull, Missing}
DictOf(a) == [k \in {x \in DOMAIN a : a[x] # Missing} |-> a[k]]

JudgePayloads ==
    {ObjText(DictOf(JudgeObj(fc, a, ad))) : fc \in ScoreValues, a \in ScoreValues,
                                           ad \in ScoreValues}
    \cup {ObjText(DictOf([JudgeObj(fc, JInt(4), ad) EXCEPT !["reasoning"] = r])) :
            fc \in ScoreValues, ad \in ScoreValues, r \in {JInt(3), Missing}}
MetaPayloads ==
    {ObjText(DictOf(MetaObj(fc, a, ad))) : fc \in ScoreValues, a \in ScoreValues,
                                          ad \in ScoreValues}
    \cup {ObjText(DictOf([MetaObj(fc, JInt(4), JInt(4)) EXCEPT
                            !["analysis"] = x, !["consensus_reasoning"] = y])) :
            fc \in ScoreValues, x \in {JStr, JInt(3), Missing}, y \in {JStr, JNull, Missing}}

Blank == <<Ch(" "), Ch("\n")>>
\* the text t inside a code fence with the given language tag
Fenced(tag, t) == FENCE \o tag \o <<Ch("\n")>> \o t \o <<Ch("\n")>> \o FENCE
\* the tags of a fence around JSON: none, json, and json in capitals
FenceTags == {<<>>, Chars(<<"j", "s", "o", "n">>), Chars(<<"J", "S", "O", "N">>)}
\* t wrapped in a code fence, with and without whitespace around it
Wrappings(t) ==
    {Fenced(tag, t) : tag \in FenceTags} \cup {Blank \o Fenced(tag, t) \o Blank : tag \in FenceTags}
\* t as it is, wrapped, and behind a fence that is never closed
Fences(t) ==
    {t, Blank \o t \o Blank} \cup Wrappings(t) \cup {FENCE_JSON \o <<Ch("\n")>> \o t}
\* the payloads that come with every wrapping
FencedPayloads ==
    {JudgeGood, MetaGood, Malformed, ObjText(JudgeObj(JInt(SCORE_MAX + 1), JInt(2), JInt(3)))}

OtherTexts ==
    {<<Ch("{"), Ch("}")>>, <<Ch("["), Ch("]")>>, <<Ch("7")>>,
     Chars(<<"n", "u", "l", "l">>), Malformed, Blank, <<>>}

ValidatorInputs ==
    {None} \cup {Str(t) : t \in JudgePayloads \cup MetaPayloads \cup OtherTexts
                                \cup UNION {Fences(t) : t \in FencedPayloads}}

ValidatorInit ==
    /\ PipeIdle({Config(TwoJudges, EmptyDict)})
    /\ QueryIdle
    /\ v_pc = "input"
    /\ v_raw \in ValidatorInputs
    /\ v_res = NoMeta
    /\ LoadIdle
    /\ GenIdle

ValidateAsJudge ==
    /\ v_pc = "input"
    /\ v_res' = JudgeResult("judgeA", v_raw)
    /\ v_pc' = "judge"
    /\ UNCHANGED <<v_raw, pipeVars, queryVars, loadVars, genVars>>

ValidateAsMeta ==
    /\ v_pc = "input"
    /\ v_res' = MetaResult("metaM", v_raw)
    /\ v_pc' = "meta"
    /\ UNCHANGED <<v_raw, pipeVars, queryVars, loadVars, genVars>>

ValidatorNext == ValidateAsJudge \/ ValidateAsMeta

ValidatorSpec == ValidatorInit /\ [][ValidatorNext]_vars

\* one query_llm call
RetryConfigs ==
    {EmptyDict} \cup
    {[max_retries |-> r, initial_delay |-> d] : r \in 0..MaxRetriesTried,
                                                d \in {0, 1, 20, MAX_DELAY + 40}}

GatewayInit ==
    /\ PipeIdle({Config(ThreeJudges, r) : r \in RetryConfigs})
    /\ QueryInit
    /\ ValidIdle
    /\ LoadIdle
    /\ GenIdle

GatewayNext == QueryEntry \/ QueryAttempt \/ QuerySleep

GatewaySpec == GatewayInit /\ [][GatewayNext]_vars

\* one evaluation under a configuration with a skipped judge entry, and one
\* query_llm call for a judge of that configuration
RegistryInit ==
    /\ PipeInit({Config(WithSkipped(e), EmptyDict) : e \in SkippedEntries},
                {1}, FlatLayout({1}), BatchProvider, AmplePool({1}))
    /\ q_pc = "entry"
    /\ q_model \in {"judgeA", "judgeD"}
    /\ q_attempt = 0 /\ q_delay = 0 /\ q_made = 0
    /\ q_waits = <<>>
    /\ q_last = "(none)"
    /\ q_ret = None
    /\ ValidIdle
    /\ LoadIdle
    /\ GenIdle
RegistryNext == Next \/ GatewayNext
RegistrySpec == RegistryInit /\ [][RegistryNext]_vars

-----------------------------------------------------------------------------
(* Properties *)

JudgeCount == Len(judge_model_ids(config))
WrittenNow(f) == outputs[output_path(f)].written_by = "this run"
IsValid(r) == ~r.parsed_result.none
AllInvalid(js) == \A i \in DOMAIN js : ~IsValid(js[i])

ListMatchesJudges(js) ==
    /\ Len(js) = JudgeCount
    /\ \A i \in 1..Len(js) : js[i].judge_id = judge_model_ids(config)[i]

\* C1: for every evaluated review the verdict list, while the evaluation
\* runs and in the result file, has exactly one entry per configured judge,
\* the i-th entry carrying the i-th configured judge's id, whichever calls
\* failed or gave invalid output and in whatever order they returned.
C1_OneVerdictPerJudgeInOrder ==
    \A f \in review_files :
        /\ pc[f] \in {"judging", "meta"} => ListMatchesJudges(judges[f])
        /\ WrittenNow(f) =>
            /\ ListMatchesJudges(outputs[output_path(f)].judges)
            /\ \A i \in DOMAIN outputs[output_path(f)].judges : ~IsPending(outputs[output_path(f)].judges[i])

\* a result file with three verdicts: a parse error, a valid one, a failed call
C1_Witness ==
    \E f \in review_files :
        /\ WrittenNow(f)
        /\ Len(outputs[output_path(f)].judges) = 3
        /\ outputs[output_path(f)].judges[1].error = ERR_PARSE
        /\ IsValid(outputs[output_path(f)].judges[2])
        /\ outputs[output_path(f)].judges[3].error = ERR_NO_RESPONSE

\* C2: while the meta-judge call of a review is in flight, no judge call of
\* that review is outstanding.
C2_MetaAfterAllJudges ==
    \A f \in review_files :
        pc[f] = "meta" =>
            /\ Len(judges[f]) = JudgeCount
            /\ \A j \in 1..JudgeCount : ~IsPending(judges[f][j])

\* a meta-judge call in flight after a failed and a valid judge call, while
\* another review still has judge calls outstanding
C2_Witness ==
    \E f, g \in review_files :
        /\ pc[f] = "meta"
        /\ \E i, k \in DOMAIN judges[f] :
                judges[f][i].error = ERR_NO_RESPONSE /\ IsValid(judges[f][k])
        /\ pc[g] = "judging"
        /\ \E i \in DOMAIN judges[g] : IsPending(judges[g][i])

\* C3: at most SEMAPHORE_SLOTS reviews hold a slot of the semaphore at any
\* time, however many review files were discovered.
C3_AtMostKHolding ==
    /\ Cardinality(Holding) <= SEMAPHORE_SLOTS
    /\ semaphore + Cardinality(Holding) = SEMAPHORE_SLOTS

\* every slot taken while another review waits for one
C3_Witness ==
    /\ Cardinality(Holding) = SEMAPHORE_SLOTS
    /\ Waiting # {}
    /\ run = "running"

\* C4: a review whose result file existed when the run started is skipped:
\* no query_llm call is made for it and its result file is not rewritten.
C4_ExistingOutputSkipped ==
    \A f \in existed :
        /\ calls[f] = 0
        /\ writes[output_path(f)] = 0
        /\ outputs[output_path(f)] = OldFile(config)

\* the scores of a verdict r checked over keys: a valid verdict holds only
\* scores within [SCORE_MIN, SCORE_MAX], and exactly the parsed payload; a
\* payload with an integer score outside the range gives an invalid verdict
ScoresWithinRange(r, keys) ==
    LET p == JsonLoads(CleanOutput(r.raw_output.text)) IN
    /\ IsValid(r) =>
        /\ \A i \in 1..Len(keys) :
            /\ keys[i] \in DOMAIN r.parsed_result.d
            /\ r.parsed_result.d[keys[i]].val \in SCORE_MIN..SCORE_MAX
        /\ r.parsed_result.d = p.d
    /\ ( /\ Truthy(r.raw_output)
         /\ p.type = "dict"
         /\ \E i \in 1..Len(keys) :
                /\ keys[i] \in DOMAIN p.d
                /\ p.d[keys[i]].kind = "int"
                /\ p.d[keys[i]].val \notin SCORE_MIN..SCORE_MAX )
        => ~IsValid(r) /\ r.error # NoError

\* C5: every score of a valid judge verdict or valid meta-judge result of a
\* result file lies in [SCORE_MIN, SCORE_MAX] and is the score of the
\* payload, unaltered; a payload with a score outside the range makes the
\* whole verdict invalid.
C5_PersistedScoresInRange ==
    \A f \in review_files :
        /\ \A i \in DOMAIN judges[f] :
                ~IsPending(judges[f][i]) => ScoresWithinRange(judges[f][i], CRITERIA)
        /\ WrittenNow(f) =>
            /\ \A i \in DOMAIN outputs[output_path(f)].judges :
                    ScoresWithinRange(outputs[output_path(f)].judges[i], CRITERIA)
            /\ ScoresWithinRange(outputs[output_path(f)].meta_judge, META_CRITERIA)

\* a result file with a valid verdict, a verdict rejected for a score of
\* SCORE_MAX + 1, and a meta-judge result rejected for a score of SCORE_MIN - 1
C5_Witness ==
    \E f \in review_files :
        /\ WrittenNow(f)
        /\ \E i, k \in DOMAIN outputs[output_path(f)].judges :
            /\ IsValid(outputs[output_path(f)].judges[i])
            /\ outputs[output_path(f)].judges[k].raw_output =
                    Str(ObjText(JudgeObj(JInt(4), JInt(SCORE_MAX + 1), JInt(4))))
            /\ outputs[output_path(f)].judges[k].error = ERR_SCHEMA
        /\ outputs[output_path(f)].meta_judge.raw_output =
                Str(ObjText(MetaObj(JInt(SCORE_MIN - 1), JInt(4), JInt(4))))
        /\ ~IsValid(outputs[output_path(f)].meta_judge)

\* C6: with every judge verdict invalid the meta-judge call is still made
\* (building its prompt does not raise), and the result that is written
\* holds the all-invalid list and the meta-judge's result.
C6_AllInvalidStillSynthesized ==
    \A f \in review_files :
        /\ pc[f] # "crashed"
        /\ pc[f] = "meta" /\ AllInvalid(judges[f]) => calls[f] = JudgeCount + 1
        /\ WrittenNow(f) /\ AllInvalid(outputs[output_path(f)].judges) =>
            /\ calls[f] = JudgeCount + 1
            /\ Len(outputs[output_path(f)].judges) = JudgeCount
            /\ outputs[output_path(f)].meta_judge.model_id = meta_judge_model_id(config)
            /\ outputs[output_path(f)].meta_judge.error # ERR_NO_OUTPUTS

\* a written result whose judges all failed, for different reasons, and whose
\* synthesis failed too
C6_Witness ==
    \E f \in review_files :
        /\ WrittenNow(f)
        /\ AllInvalid(outputs[output_path(f)].judges)
        /\ outputs[output_path(f)].judges[1].error = ERR_NO_RESPONSE
        /\ outputs[output_path(f)].judges[2].error = ERR_PARSE
        /\ ~IsValid(outputs[output_path(f)].meta_judge)

\* C7: one query_llm call makes at most max_retries + 1 requests; after a
\* failed request it returns None only when all max_retries + 1 were made;
\* it returns the content at the first request that succeeds.
C7_AttemptsBounded ==
    /\ q_made <= max_retries(config) + 1
    /\ q_pc = "returned" /\ q_ret = None /\ q_made > 0 =>
            q_made = max_retries(config) + 1 /\ q_last \in ProviderFailures
    /\ q_pc = "returned" /\ ~q_ret.none =>
            q_last = "content" /\ q_made = q_attempt + 1

\* a call that timed out on its last of at least three requests
C7_Witness ==
    /\ q_pc = "returned"
    /\ q_ret = None
    /\ q_last = "APITimeoutError"
    /\ q_made = max_retries(config) + 1
    /\ q_made >= 3

\* a permanent failure seen before the first request: the model id is not in
\* the configuration, or its provider has no API key
UnknownModel(cfg, id) == \A i \in 1..Len(cfg.llm_models) : cfg.llm_models[i].id # id
MissingKey(cfg, id) ==
    \E i \in 1..Len(cfg.llm_models) :
        /\ cfg.llm_models[i].id = id
        /\ ~cfg.llm_providers[cfg.llm_models[i].provider].api_key
\* a permanent failure the provider reports: bad credentials, unknown model
PermanentOutcomes == {"APIStatusError_401", "APIStatusError_404"}

C9_NeverRaises ==
    /\ q_pc # "raised"
    /\ q_last \in ProviderFailures =>
            q_pc \in {"sleep", "attempt"} \/ (q_pc = "returned" /\ q_ret = None)

\* a call returning None after a request raised an exception of no special class
C9_Witness ==
    /\ q_pc = "returned"
    /\ q_last = "Exception"
    /\ q_ret = None

\* a parsed payload that is missing a required key, has a wrongly typed
\* value, or has an integer score outside [SCORE_MIN, SCORE_MAX]
SchemaFault(d, scoreKeys, textKeys) ==
    \/ \E i \in 1..Len(scoreKeys) :
        \/ scoreKeys[i] \notin DOMAIN d
        \/ d[scoreKeys[i]].kind \notin {"int", "bool"}
        \/ d[scoreKeys[i]].val \notin SCORE_MIN..SCORE_MAX
    \/ \E i \in 1..Len(textKeys) :
        \/ textKeys[i] \notin DOMAIN d
        \/ d[textKeys[i]].kind # "str"

\* C10: a raw output that does not parse gives the parse-error reason; one
\* that parses to an object with a missing key, a wrongly typed value or a
\* score out of range gives the schema-error reason, and no other reason.
C10_ReasonsNeverSwapped ==
    LET p == JsonLoads(CleanOutput(v_raw.text)) IN
    v_pc \in {"judge", "meta"} /\ Truthy(v_raw) =>
        /\ p.type = "JSONDecodeError" => v_res.error = ERR_PARSE
        /\ ( /\ p.type = "dict"
             /\ IF v_pc = "judge"
                THEN SchemaFault(p.d, CRITERIA, <<"reasoning">>)
                ELSE SchemaFault(p.d, META_CRITERIA, <<"analysis", "consensus_reasoning">>) )
            => v_res.error = ERR_SCHEMA

\* every score key of d is present with a value of integer kind (a JSON
\* number without fraction, not a boolean), every text key with a string
WellKinded(d, scoreKeys, textKeys) ==
    /\ \A i \in 1..Len(scoreKeys) :
        scoreKeys[i] \in DOMAIN d /\ d[scoreKeys[i]].kind = "int"
    /\ \A i \in 1..Len(textKeys) :
        textKeys[i] \in DOMAIN d /\ d[textKeys[i]].kind = "str"

\* C11: a verdict is valid only if the payload is an object holding every
\* criterion key with a value of integer kind and every rationale key with a
\* string; a payload with a boolean, float, string or null criterion value,
\* or with a required key absent, is never valid and keeps no score.
C11_ValidityAllOrNothing ==
    LET p == JsonLoads(CleanOutput(v_raw.text)) IN
    v_pc \in {"judge", "meta"} /\ IsValid(v_res) =>
        /\ Truthy(v_raw)
        /\ p.type = "dict"
        /\ IF v_pc = "judge"
           THEN WellKinded(p.d, CRITERIA, <<"reasoning">>)
           ELSE WellKinded(p.d, META_CRITERIA, <<"analysis", "consensus_reasoning">>)

\* the failure reasons _run_meta_judge records
MetaFailureReasons == {ERR_NO_RESPONSE, ERR_PARSE, ERR_SCHEMA, ERR_UNEXPECTED}

\* C12: when the meta-judge call fails or its output does not validate, the
\* task still ends by writing (or failing to write) its result; the result
\* written has no reconciled scores and a failure reason, and its judges
\* entry is the judge list exactly as the gather returned it; the step
\* changes nothing of any other review and does not end the batch.
C12_FailedSynthesisKeepsVerdicts ==
    [][\A f \in review_files :
        pc[f] = "meta" /\ pc'[f] # "meta" =>
            /\ pc'[f] \in {"saved", "save_failed"}
            /\ run' = run
            /\ \A g \in review_files \ {f} :
                pc'[g] = pc[g] /\ judges'[g] = judges[g] /\ outputs'[output_path(g)] = outputs[output_path(g)]
                    /\ calls'[g] = calls[g] /\ writes'[output_path(g)] = writes[output_path(g)]
            /\ pc'[f] = "saved" /\ ~IsValid(outputs'[output_path(f)].meta_judge) =>
                /\ outputs'[output_path(f)].judges = judges[f]
                /\ outputs'[output_path(f)].meta_judge.parsed_result = NoParsed
                /\ outputs'[output_path(f)].meta_judge.error \in MetaFailureReasons
                /\ outputs'[output_path(f)].meta_judge.model_id = meta_judge_model_id(config)]_vars

\* three results written in one run: one whose meta-judge call failed, kept
\* with a failed and a valid verdict, one whose meta-judge output did not
\* parse, and one with a valid synthesis
C12_Witness ==
    \E f, g, h \in review_files :
        /\ WrittenNow(f) /\ WrittenNow(g) /\ WrittenNow(h)
        /\ outputs[output_path(f)].meta_judge.error = ERR_NO_RESPONSE
        /\ Len(outputs[output_path(f)].judges) = JudgeCount
        /\ ~IsValid(outputs[output_path(f)].judges[1]) /\ IsValid(outputs[output_path(f)].judges[2])
        /\ outputs[output_path(g)].meta_judge.error = ERR_PARSE
        /\ IsValid(outputs[output_path(h)].meta_judge)

\* C13: a failed write of one review's result file releases that review's
\* semaphore slot, leaves the batch running and every other review as it
\* was; afterwards a waiting review can still get a slot whenever none is
\* held, and the batch ends only with every review at its own outcome.
C13_WriteFailureConfined ==
    /\ [][\A f \in review_files :
            pc[f] # "save_failed" /\ pc'[f] = "save_failed" =>
                /\ run' = run
                /\ semaphore' = semaphore + 1
                /\ \A g \in review_files \ {f} :
                    pc'[g] = pc[g] /\ judges'[g] = judges[g] /\ outputs'[output_path(g)] = outputs[output_path(g)]]_vars
    /\ []((\E f \in review_files : pc[f] = "save_failed") =>
            /\ run \in {"running", "finished"}
            /\ run = "running" /\ Waiting # {} /\ Holding = {} => semaphore > 0
            /\ run = "finished" => \A g \in review_files : pc[g] \in Terminal)

\* the batch finished with the first review's write failed and the two
\* reviews after it written
C13_Witness ==
    /\ run = "finished"
    /\ pc[1] = "save_failed"
    /\ \A f \in review_files \ {1} : pc[f] = "saved" /\ WrittenNow(f)

\* C14: the prompt of a meta-judge call in flight shows no verdict under the
\* model identifier of the judge that gave it: the labels are positional
\* and assigned by a shuffle, so the prompt does not tell which configured
\* judge produced which verdict.
C14_PromptHidesJudgeIdentity ==
    \A f \in review_files :
        pc[f] = "meta" =>
            \A i \in 1..Len(judges[f]) :
                MetaJudgePrompt(judges[f])[i].label # judges[f][i].judge_id

\* C15: no two review files under evaluation in one run have the same
\* output path, so no result file is written by two evaluations of the run.
C15_DistinctOutputPaths ==
    /\ \A f, g \in Holding : f # g => output_path(f) # output_path(g)
    /\ \A f \in review_files : writes[output_path(f)] <= 1

\* a model list without any model of the role
NoModelWithRole(cfg, role) ==
    \A i \in 1..Len(cfg.llm_models) : cfg.llm_models[i].role # role
\* startup or configuration failed: a check of __main__ failed, or the
\* configuration has no judge or no meta-judge
StartupFailed ==
    \/ run \in {"no_config_file", "no_reviews_dir"}
    \/ run = "aborted" /\ (NoModelWithRole(config, "judge")
                            \/ NoModelWithRole(config, "meta-judge"))

\* C16: the process ends with a non-zero status exactly when startup or
\* configuration failed; a review that could not be loaded or whose result
\* could not be written does not change the status.
C16_ExitStatusReflectsStartup ==
    run \in Ended => (ExitStatus(run) # 0 <=> StartupFailed)

\* C17: with a configuration that has no judge, or no meta-judge, the run
\* never gets past startup: no review is loaded, no slot taken, no
\* query_llm call made and no result file written.
C17_NoWorkWithoutRoles ==
    (NoModelWithRole(config, "judge") \/ NoModelWithRole(config, "meta-judge")) =>
        /\ run \in {"main", "init", "no_config_file", "no_reviews_dir", "aborted"}
        /\ semaphore = SEMAPHORE_SLOTS
        /\ \A f \in review_files :
            /\ pc[f] = "discovered"
            /\ judges[f] = <<>>
            /\ calls[f] = 0
            /\ writes[output_path(f)] = 0
            /\ ~WrittenNow(f)

\* a run with judges but no meta-judge, ended at startup with review files
\* in the input directory
C17_Witness ==
    /\ run = "aborted"
    /\ NoModelWithRole(config, "meta-judge")
    /\ ~NoModelWithRole(config, "judge")
    /\ review_files # {}

\* the moves of the per-review state machine
StageMoves ==
    {<<"discovered", "skipped">>, <<"discovered", "dispatched">>,
     <<"dispatched", "judged">>, <<"judged", "synthesized">>,
     <<"synthesized", "persisted">>,
     <<"dispatched", "failed">>, <<"synthesized", "failed">>}

\* C18: every step of a review's task follows the moves discovered ->
\* dispatched -> judged -> synthesized -> persisted (or discovered ->
\* skipped), with failed entered only from dispatched or synthesized; a
\* task that has ended stays as it is; a result is written only by the step
\* in which the meta-judge call returned.
C18_StagesInOrder ==
    [][\A f \in review_files :
        LET t == StagesPassed(pc[f], judges[f], pc'[f], judges'[f]) IN
        /\ \A i \in 1..(Len(t) - 1) : <<t[i], t[i + 1]>> \in StageMoves
        /\ pc[f] \in Terminal => pc'[f] = pc[f]
        /\ writes'[output_path(f)] # writes[output_path(f)] =>
            /\ pc[f] = "meta" /\ pc'[f] = "saved"
            /\ ~IsPending(outputs'[output_path(f)].meta_judge)
            /\ outputs'[output_path(f)].meta_judge.error # "(not returned)"]_vars

\* a finished run in which one review was written although a judge call and
\* the meta-judge call of it had failed, one was not written, and one did
\* not load
C18_Witness ==
    /\ run = "finished"
    /\ \E f, g, h \in review_files :
        /\ pc[f] = "saved"
        /\ ~IsValid(outputs[output_path(f)].judges[1])
        /\ ~IsValid(outputs[output_path(f)].meta_judge)
        /\ pc[g] = "save_failed"
        /\ pc[h] = "not_loaded"

\* C19: the result of validating any raw output, as a judge's or as the
\* meta-judge's, has either a parsed payload and no failure reason, or a
\* failure reason and no parsed payload: never both, never neither.
C19_ValidXorInvalid ==
    v_pc \in {"judge", "meta"} =>
        \/ /\ ~v_res.parsed_result.none
           /\ v_res.error = NoError
           /\ DOMAIN v_res.parsed_result.d # {}
        \/ /\ v_res.parsed_result = NoParsed
           /\ v_res.error \in {ERR_NO_RESPONSE, ERR_PARSE, ERR_SCHEMA, ERR_UNEXPECTED}

\* a judge output whose checks raised (a criterion key is absent): a
\* failure with its reason and no payload
C19_Witness ==
    /\ v_pc = "judge"
    /\ Truthy(v_raw)
    /\ JsonLoads(CleanOutput(v_raw.text)).type = "dict"
    /\ v_res.error = ERR_UNEXPECTED
    /\ v_res.parsed_result = NoParsed

\* a meta-judge payload as the judge payload it corresponds to: each
\* "final_" criterion key without the prefix, "consensus_reasoning" as
\* "reasoning"; "analysis", which the judge schema has no place for, is left out
Unprefixed(k) ==
    CASE k = "final_factual_correctness" -> "factual_correctness"
      [] k = "final_actionability" -> "actionability"
      [] k = "final_analytical_depth" -> "analytical_depth"
      [] k = "consensus_reasoning" -> "reasoning"
      [] OTHER -> k
AsJudgePayload(d) ==
    LET kept == DOMAIN d \ {"analysis"} IN
    [k \in {Unprefixed(x) : x \in kept} |->
        d[CHOOSE x \in kept : Unprefixed(x) = k]]
AsJudgeOutput(raw) ==
    IF raw.none THEN None
    ELSE Str([i \in 1..Len(raw.text) |->
                IF raw.text[i].ch = "members"
                THEN ObjCh(AsJudgePayload(raw.text[i].obj)) ELSE raw.text[i]])

\* the payload has nothing the judge schema lacks a counterpart for: no
\* judge key next to the meta-judge keys, and "analysis" a string
Comparable(raw) ==
    LET p == JsonLoads(CleanOutput(raw.text)) IN
    p.type = "dict" /\ p.d # NoObj =>
        /\ "analysis" \in DOMAIN p.d /\ p.d["analysis"].kind = "str"
        /\ DOMAIN p.d \cap {"factual_correctness", "actionability",
                            "analytical_depth", "reasoning"} = {}

\* C20: the meta-judge validator gives a raw output the outcome, valid or
\* invalid and with the same reason, that the judge validator gives the
\* same output with the "final_" prefix removed from the criterion keys and
\* the rationale key renamed.
C20_ValidatorsAgree ==
    v_pc = "meta" /\ Comparable(v_raw) =>
        LET j == JudgeResult("judgeA", AsJudgeOutput(v_raw)) IN
        /\ IsValid(v_res) <=> IsValid(j)
        /\ v_res.error = j.error

\* C21: the n-th wait of one query_llm call is
\* min(initial_delay * 2^(n-1), ceiling), so no wait exceeds the ceiling.
C21_BackoffDoublesToCeiling ==
    \A n \in 1..Len(q_waits) :
        /\ q_waits[n] = Min(initial_delay(config) * 2^(n - 1), MAX_DELAY)
        /\ q_waits[n] <= MAX_DELAY

\* the error a returned value carries, if it carries one
ErrorCarried(v) == IF "error" \in DOMAIN v THEN v.error ELSE "(no error carried)"

\* C22: a response with empty content is returned as the empty string by
\* the request that got it, with no retry, and differs from the value
\* returned when the retries are exhausted; that value carries the last error.
C22_EmptyIsNotFailure ==
    /\ q_last = "content" => q_pc = "returned" /\ ~q_ret.none /\ q_made = q_attempt + 1
    /\ q_pc = "returned" /\ q_ret = Str(<<>>) => q_last = "content"
    /\ Str(<<>>) # None
    /\ q_pc = "returned" /\ q_last \in ProviderFailures =>
            q_ret.none /\ ErrorCarried(q_ret) = q_last

RECURSIVE TotalOutstanding(_)
TotalOutstanding(files) ==
    IF files = {} THEN 0
    ELSE LET f == CHOOSE x \in files : TRUE
         IN  Outstanding(f) + TotalOutstanding(files \ {f})

\* C23: the query_llm calls outstanding over the whole batch never number
\* more than SEMAPHORE_SLOTS * (number of judges) + 1; a review has at most
\* its judge calls outstanding, all of them from the moment it takes its
\* slot, or its meta-judge call alone.
C23_OutstandingCallsBounded ==
    /\ TotalOutstanding(review_files) <= SEMAPHORE_SLOTS * JudgeCount + 1
    /\ \A f \in review_files :
        /\ Outstanding(f) <= JudgeCount
        /\ pc[f] = "meta" => Outstanding(f) = 1
        /\ Outstanding(f) > 0 => f \in Holding

\* every slot held by a review with all its judge calls outstanding, while
\* another review waits
C23_Witness ==
    /\ JudgeCount >= 2
    /\ TotalOutstanding(review_files) = SEMAPHORE_SLOTS * JudgeCount
    /\ Waiting # {}

\* the review files one of whose query_llm calls hangs
HungFiles == {f \in review_files : \E c \in executor.hung : c[1] = f}

\* C24: a hung review delays only its own semaphore slot: while fewer than
\* SEMAPHORE_SLOTS reviews are hung and every other call returns, every
\* other review eventually gets a slot, finishes its calls and releases the
\* slot
C24_HungDelaysOnlyItsSlot ==
    \A f \in 1..NumHangFiles :
        <>(\/ pc[f] \in Terminal
           \/ f \in HungFiles
           \/ Cardinality(HungFiles) >= SEMAPHORE_SLOTS
           \/ run \in Ended)

\* the sources of review text a review file offers
Member(file, key) ==
    IF file.json = "valid" /\ file.data.type = "dict"
    THEN DictGet(file.data.d, key, Absent) ELSE Absent
ParsedMember(file, key) ==
    IF Member(file, "parsed_llm_output").type = "dict"
    THEN DictGet(Member(file, "parsed_llm_output").d, key, Absent) ELSE Absent
BugListAvailable(file) ==
    /\ ParsedMember(file, "bugs_found").type = "list"
    /\ Len(ParsedMember(file, "bugs_found").items) > 0
RationaleAvailable(file) == NonBlankStr(ParsedMember(file, "no_bugs_reasoning"))
RawAvailable(file) == NonBlankStr(Member(file, "raw_llm_output"))
\* a JSON object with no recorded generation error and a usable code context
Readable(file) ==
    /\ file.json = "valid" /\ file.data.type = "dict"
    /\ ~PyTruthy(Member(file, "error"))
    /\ Member(file, "code_context").type \in {"str", "(absent)"}
WellFormedBugs(file) ==
    \A i \in 1..Len(ParsedMember(file, "bugs_found").items) :
        ParsedMember(file, "bugs_found").items[i].type = "dict"

\* C25: the review text of a readable review file is the formatted summary
\* of its parsed bug list if it has one; otherwise its "no bugs" rationale
\* if it has one; otherwise its raw text if it has one: the first source
\* available wins, and a later one is never used in its place
C25_FirstAvailableSourceWins ==
    l_pc = "loaded" /\ Readable(l_data) =>
        /\ BugListAvailable(l_data) =>
                /\ ~l_ret.none
                /\ l_ret.review_text = FormattedReview(ParsedMember(l_data, "bugs_found").items)
        /\ ~BugListAvailable(l_data) /\ RationaleAvailable(l_data) =>
                /\ ~l_ret.none
                /\ l_ret.review_text = NoBugsReview(ParsedMember(l_data, "no_bugs_reasoning"))
        /\ ~BugListAvailable(l_data) /\ ~RationaleAvailable(l_data) /\ RawAvailable(l_data) =>
                /\ ~l_ret.none
                /\ l_ret.review_text = Member(l_data, "raw_llm_output").text

\* the verdict the validation of v_pc gives for the text t
VerdictOf(t) ==
    IF v_pc = "judge" THEN JudgeResult("judgeA", Str(t)) ELSE MetaResult("metaM", Str(t))
SameVerdict(a, b) == a.parsed_result = b.parsed_result /\ a.error = b.error

\* C26: a payload wrapped in a code fence, with or without a language tag
\* and whitespace around it, gets the verdict the payload alone gets; text
\* without a fence is parsed as it is
C26_FenceDoesNotChangeVerdict ==
    \A p \in FencedPayloads :
        v_pc \in {"judge", "meta"} /\ ~v_raw.none =>
            /\ v_raw.text \in Wrappings(p) => SameVerdict(v_res, VerdictOf(p))
            /\ v_raw.text \in {p, Blank \o p \o Blank} =>
                    /\ SameVerdict(v_res, VerdictOf(p))
                    /\ CleanOutput(v_raw.text) = p

\* the call that gave r returned nothing to read: None or the empty string
NothingReturned(r) == r.raw_output \in {None, Str(<<>>)}
CallFailureRecorded(r) == r.parsed_result.none /\ r.error = ERR_NO_RESPONSE

\* C27: an empty string returned by the gateway for a judge or for the
\* meta-judge is recorded as an invalid verdict with the "No response ...
\* after retries" reason, as a call that exhausted its retries is; never as
\* a parse error and never as valid
C27_EmptyResultIsCallFailure ==
    /\ ERR_NO_RESPONSE \notin {ERR_PARSE, ERR_SCHEMA, ERR_UNEXPECTED, NoError}
    /\ \A f \in review_files :
        /\ \A j \in DOMAIN judges[f] :
                ~IsPending(judges[f][j]) /\ NothingReturned(judges[f][j]) =>
                    CallFailureRecorded(judges[f][j])
        /\ WrittenNow(f) =>
            /\ \A j \in DOMAIN outputs[output_path(f)].judges :
                    NothingReturned(outputs[output_path(f)].judges[j]) =>
                        CallFailureRecorded(outputs[output_path(f)].judges[j])
            /\ NothingReturned(outputs[output_path(f)].meta_judge) =>
                    CallFailureRecorded(outputs[output_path(f)].meta_judge)

\* a result file with an empty answer of one judge, an exhausted call of
\* another, and an empty answer of the meta-judge
C27_Witness ==
    \E f \in review_files :
        /\ WrittenNow(f)
        /\ \E j, k \in DOMAIN outputs[output_path(f)].judges :
                /\ outputs[output_path(f)].judges[j].raw_output = Str(<<>>)
                /\ outputs[output_path(f)].judges[k].raw_output = None
                /\ outputs[output_path(f)].judges[j].error
                        = outputs[output_path(f)].judges[k].error
        /\ outputs[output_path(f)].meta_judge.raw_output = Str(<<>>)

\* the entries of llm_models with role judge, in their order in the list
RawJudges == SelectSeq(config.llm_models, LAMBDA m : m.role = "judge")
Registered(id) == id \in DOMAIN LoadModelConfigs(config)

\* C28: a judge of the raw configuration list that the gateway did not
\* load keeps its place in the verdict list; its query_llm call returns None
\* without a provider request and without a wait, and its verdict is invalid
C28_UnregisteredJudgeKeepsItsSlot ==
    /\ ~Registered(q_model) =>
            /\ q_made = 0 /\ q_waits = <<>> /\ q_pc \in {"entry", "returned"}
            /\ q_pc = "returned" => q_ret = None
    /\ \A f \in review_files :
        /\ pc[f] \in {"judging", "meta"} =>
            /\ Len(judges[f]) = Len(RawJudges)
            /\ \A j \in 1..Len(RawJudges) :
                /\ judges[f][j].judge_id = RawJudges[j].id
                /\ ~Registered(RawJudges[j].id) /\ ~IsPending(judges[f][j]) =>
                        /\ judges[f][j].raw_output = None
                        /\ CallFailureRecorded(judges[f][j])
        /\ WrittenNow(f) =>
            /\ Len(outputs[output_path(f)].judges) = Len(RawJudges)
            /\ \A j \in 1..Len(RawJudges) :
                /\ outputs[output_path(f)].judges[j].judge_id = RawJudges[j].id
                /\ ~Registered(RawJudges[j].id) =>
                        ~IsValid(outputs[output_path(f)].judges[j])

\* a result file keeps the invalid verdict of the skipped judge between the
\* valid verdicts of its neighbours, and the query_llm call for that judge
\* has returned
C28_Witness ==
    /\ q_model = "judgeD" /\ q_pc = "returned"
    /\ WrittenNow(1)
    /\ Len(outputs[output_path(1)].judges) = 3
    /\ IsValid(outputs[output_path(1)].judges[1])
    /\ outputs[output_path(1)].judges[2].judge_id = "judgeD"
    /\ ~IsValid(outputs[output_path(1)].judges[2])
    /\ IsValid(outputs[output_path(1)].judges[3])

\* C29: a review file that load_review_data cannot turn into a review (not
\* JSON, a recorded generation error, no review text) causes no query_llm
\* call and no result file; its task gives the semaphore slot back, and the
\* other files are processed as usual
C29_UnloadableFileSkipped ==
    /\ semaphore = SEMAPHORE_SLOTS - Cardinality(Holding)
    /\ \A f \in review_files :
        pc[f] = "not_loaded" =>
            /\ calls[f] = 0 /\ Outstanding(f) = 0 /\ judges[f] = <<>>
            /\ writes[output_path(f)] = 0
            /\ ~WrittenNow(f)
    /\ run = "finished" =>
            \A f \in review_files :
                pc[f] # "not_loaded" =>
                    /\ pc[f] \in {"saved", "save_failed"}
                    /\ calls[f] = JudgeCount + 1
                    /\ pc[f] = "saved" => WrittenNow(f) /\ writes[output_path(f)] = 1

\* the run ended with the first file unloadable and the others evaluated
\* and saved
C29_Witness ==
    /\ run = "finished"
    /\ pc[1] = "not_loaded"
    /\ \A f \in review_files \ {1} : pc[f] = "saved" /\ calls[f] = JudgeCount + 1
    /\ Cardinality(review_files) > SEMAPHORE_SLOTS

\* the pairs whose query_llm call of the current run has returned
GenReturned == {p \in GenPairs : g_pc[p] \in {"written", "write_failed"}}
GenPass == IF g_pass = "first" THEN "first" ELSE "second"
\* an existing output file ends the task before any call, and a second run
\* makes no call for a pair whose file the first run wrote
ExistingFileSuppresses ==
    /\ \A p \in GenPairs :
        g_pass \in {"first", "second", "ended"} /\ g_pc[p] = "skipped" =>
            /\ g_files[GenPath(p)].exists
            /\ g_calls[GenPass][p] = 0
    /\ \A p \in g_wrote["first"] : g_calls["second"][p] = 0
\* a written file records the answer and, for a failed call or an invalid
\* answer, the error
FileRecordsOutcome ==
    \A f \in DOMAIN g_files :
        g_files[f].exists =>
            /\ g_files[f].error = NoError <=> ~g_files[f].parsed_llm_output.none
            /\ ~Truthy(g_files[f].raw_llm_output) => g_files[f].error = GEN_ERR_NO_RESPONSE

====
